---- MODULE Spec2Model ----
(***************************************************************************)
(* Task store, task queue and injection manager of claude-research-team.   *)
(*                                                                         *)
(* The store (src/database/index.ts) and the injection manager             *)
(* (src/injection/manager.ts) are translated from their code.  The queue   *)
(* manager (src/queue/manager.ts) is not part of the source tree; its      *)
(* operations are modelled from the specification and call the store's     *)
(* methods.  The trigger detector (src/triggers/detector.ts), the          *)
(* conversation analyzer, the hooks and the coordinator's plan and         *)
(* evaluate (src/agents/coordinator.ts, src/ai/provider.ts) are translated *)
(* from their code; the loop that runs the coordinator's phases for a      *)
(* claimed task is modelled from the specification.  The coordinator's     *)
(* synthesize, the web search of the specialists                           *)
(* (src/agents/specialists/web-search.ts), the knowledge scorer and        *)
(* determineInjectionType (src/adapters/claude-mem-adapter.ts) and the     *)
(* rendering templates (src/injection/formatters.ts) are translated from   *)
(* their code; the specialists' base class and the dispatching loop are    *)
(* not part of the source tree and are modelled from the specification.    *)
(* The provider's queryAI, the outcomes of the hook handlers, the          *)
(* analyzer's processUserPrompt and the store's cleanup are translated     *)
(* from their code.                                                        *)
(*                                                                         *)
(* Times are milliseconds (Date.now()), scores are thousandths, confidence *)
(* values are hundredths, text is represented by its length and by the set *)
(* of its words longer than three characters.                              *)
(***************************************************************************)
EXTENDS Integers, Sequences, FiniteSets, TLC

VARIABLES now, tasks, sessions, injections, lastInjectionTime, fkEnforced,
          running, retries, runs, conversation, last

vars == <<now, tasks, sessions, injections, lastInjectionTime, fkEnforced,
          running, retries, runs, conversation, last>>

\* ------------------------------------------------------------------ bounds

\* The number of tasks ever created in the whole-system specification.
MaxTasks == 1

\* --------------------------------------------------------- configuration

\* InjectionBudget of the manager instances (constructor argument; the
\* defaults are 5 / 500 / 30000).
maxPerSession == 2
maxTotalTokensPerSession == 100
cooldownMs == 30000
maxTokensPerInjection == 150

\* QueueConfig (DEFAULT_CONFIG.queue has 2 / 20 / 2).
maxConcurrent == 2
maxQueueSize == 2
retryAttempts == 2

\* Thresholds of the unified knowledge adapter (configuration), hundredths.
memoryOnlyThreshold == 80
combinedThreshold == 60
researchOnlyThreshold == 70
minRelevanceScore == 50

\* Hard-coded numbers of getInjection.
RecentLimit == 20
MinRelevanceMilli == 500

\* ------------------------------------------------------------ input sets

StartMs == 1

\* The session the injection calls are made for, and the sessions a task can
\* belong to (s2 is another session of the same store).
SessionIds == {"s1"}
TaskSessions == {"s1", "s2"}
Priorities == {3, 7}
BatchLimits == {1, 2}

None == 0 - 1

QueryLen == 21
QueryWords == {"what", "rate", "limiting"}

\* The results a worker can store: 1 is the coordinator's fixed "nothing
\* found" synthesis for the query, 2 a synthesis with five sources, 3 the
\* synthesis parsed from a generation text without a SUMMARY section (its
\* summary is the empty string, its confidence the default 0.5).
ResultKinds == {1, 2}

Result(k) ==
  IF k = 1
  THEN [summaryLen |-> 64, fullLen |-> 64, confidence |-> 0, sources |-> 0,
        titleLen |-> 0, urlLen |-> 0,
        words |-> QueryWords \cup {"unable", "find", "relevant", "information"}]
  ELSE IF k = 2
  THEN [summaryLen |-> 120, fullLen |-> 900, confidence |-> 90, sources |-> 5,
        titleLen |-> 20, urlLen |-> 30,
        words |-> {"rate", "limiting", "caps", "requests"}]
  ELSE [summaryLen |-> 0, fullLen |-> 0, confidence |-> 50, sources |-> 3,
        titleLen |-> 20, urlLen |-> 30, words |-> {}]

\* currentContext of a getInjection call: absent, or a text given by its words.
NoContext == {}
Contexts == {NoContext, {"rate", "limiting"}}

\* Relevance scores (hundredths) of the best memory and research candidates
\* the adapter returns; None when there is no candidate above the minimum.
CandidateScores == {None, 55, 90}

\* Token estimates of a rendered unified injection.
UnifiedTokens == {30, 120}

\* --------------------------------------------------------------- helpers

Min(a, b) == IF a < b THEN a ELSE b

CeilDiv(a, b) == (a + b - 1) \div b

RECURSIVE SumOver(_)
SumOver(s) ==
  IF s = <<>> THEN 0 ELSE Head(s) + SumOver(Tail(s))


\* last holds the outcome of the call made by the latest step; a step that is
\* no call of the API (a clock tick, a worker's step) leaves it empty.
NoLast == [op |-> "", sid |-> "", ctx |-> {}, result |-> "", gate |-> 0,
           batch |-> <<>>]

\* The ConversationState of a session the analyzer has not seen yet
\* (getSession): no errors, lastResearchTime 0.
NoConversation == [errors |-> {}, lastResearchTime |-> 0]

\* ------------------------------------------------- store: research tasks

\* createTask: INSERT of a row with created_at = Date.now(); the caller
\* supplies the status ('queued'), the session and the priority.
createTask(ts, sid, prio) ==
  Append(ts, [status |-> "queued", sessionId |-> sid, priority |-> prio,
              createdAt |-> now, completedAt |-> 0, result |-> 0,
              sourceRows |-> 0, error |-> "none"])

\* A faulty updateTaskStatus whose UPDATE matches no row: the status is not
\* written.
updateTaskStatusLost(ts, id, status, err) == ts

\* updateTaskStatus: UPDATE ... SET status = ?[, error = ?] WHERE id = ?.
\* No condition on the row's current status; err = "" leaves error alone.
updateTaskStatus(ts, id, status, err) ==
  IF id \in DOMAIN ts
  THEN [ts EXCEPT ![id].status = status,
                  ![id].error = IF err = "" THEN @ ELSE err]
  ELSE ts

\* saveTaskResult: UPDATE of the result columns with status = 'completed'
\* and completed_at = Date.now(), then one research_sources row per source.
saveTaskResult(ts, id, k) ==
  IF id \in DOMAIN ts
  THEN [ts EXCEPT ![id].result = k,
                  ![id].status = "completed",
                  ![id].completedAt = now,
                  ![id].sourceRows = @ + Result(k).sources]
  ELSE ts

\* rowToTask: the task carries a result only if result_summary is truthy.
HasResult(t) == t.result # 0 /\ Result(t.result).summaryLen > 0

\* rowToTask: the row as a task; the result is built from the result columns
\* and from getTaskSources (every research_sources row of the task).
NoResult == [kind |-> 0, summaryLen |-> 0, confidence |-> 0, sources |-> 0]

rowToTask(row) ==
  [status |-> row.status, sessionId |-> row.sessionId,
   priority |-> row.priority, createdAt |-> row.createdAt,
   completedAt |-> row.completedAt, error |-> row.error,
   result |-> IF HasResult(row)
              THEN [kind |-> row.result,
                    summaryLen |-> Result(row.result).summaryLen,
                    confidence |-> Result(row.result).confidence,
                    sources |-> row.sourceRows]
              ELSE NoResult]

\* getTask(id): null (here <<>>) when no row has the id.
getTask(ts, id) == IF id \in DOMAIN ts THEN rowToTask(ts[id]) ELSE <<>>

\* ORDER BY priority DESC, created_at ASC: a is strictly before b.
QueueBefore(a, b) ==
  \/ tasks[a].priority > tasks[b].priority
  \/ /\ tasks[a].priority = tasks[b].priority
     /\ tasks[a].createdAt < tasks[b].createdAt

\* The orders in which a SELECT can return the rows S.
RowOrders(S) ==
  {f \in [1..Cardinality(S) -> S] :
     \A i, j \in 1..Cardinality(S) : i # j => f[i] # f[j]}

\* A faulty read of the queue without WHERE status = 'queued'.
QueuedIdsAnyStatus == DOMAIN tasks

QueuedIds == {t \in DOMAIN tasks : tasks[t].status = "queued"}

\* getQueuedTasks(limit): the possible result lists; rows with equal sort
\* keys come in any order.
getQueuedTasks(limit) ==
  {SubSeq(f, 1, Min(limit, Cardinality(QueuedIds))) :
     f \in {g \in RowOrders(QueuedIds) :
              \A i, j \in DOMAIN g : i < j => ~QueueBefore(g[j], g[i])}}

\* ORDER BY created_at DESC.
RecentBefore(a, b) == tasks[a].createdAt > tasks[b].createdAt

\* The lists of at most k of the rows rest, most recent first; rows of the
\* same created_at come in any order.
RECURSIVE RecentFrom(_, _)
RecentFrom(rest, k) ==
  IF k = 0 \/ rest = {} THEN {<<>>}
  ELSE UNION {{<<a>> \o r : r \in RecentFrom(rest \ {a}, k - 1)} :
                a \in {x \in rest : \A y \in rest : ~RecentBefore(y, x)}}

\* getRecentTasks(limit): the possible result lists.
getRecentTasks(limit) == RecentFrom(DOMAIN tasks, limit)

\* A faulty count that counts the running rows in place of the queued ones.
QueuedCountOfRunning ==
  Cardinality({t \in DOMAIN tasks : tasks[t].status = "running"})

\* getQueueStats().queued
QueuedCount == Cardinality(QueuedIds)

\* ---------------------------------------- store: sessions and injections

\* upsertSession: INSERT ... ON CONFLICT(id) DO UPDATE of last activity and
\* project path only; the counters of an existing row are kept.
upsertSession(ss, sid, cnt, tok) ==
  IF sid \in DOMAIN ss
  THEN [ss EXCEPT ![sid].lastActivityAt = now]
  ELSE [x \in DOMAIN ss \cup {sid} |->
          IF x = sid
          THEN [injectionsCount |-> cnt, injectionsTokens |-> tok,
                lastActivityAt |-> now]
          ELSE ss[x]]

\* The INSERT into injection_records fails on its foreign key when task_id
\* names no research_tasks row and foreign keys are enforced.
InsertFails(rec) == fkEnforced /\ rec.taskId \notin DOMAIN tasks

\* recordInjection (store): INSERT, then UPDATE sessions SET
\* injections_count + 1, injections_tokens + tokens_used WHERE id = ?.
dbRecordInjections(rec) == Append(injections, rec)

\* A faulty recordInjection that counts the injection and loses its tokens.
dbRecordSessionsNoTokens(rec) ==
  IF rec.sessionId \in DOMAIN sessions
  THEN [sessions EXCEPT ![rec.sessionId].injectionsCount = @ + 1,
                         ![rec.sessionId].lastActivityAt = now]
  ELSE sessions

dbRecordSessions(rec) ==
  IF rec.sessionId \in DOMAIN sessions
  THEN [sessions EXCEPT
          ![rec.sessionId].injectionsCount = @ + 1,
          ![rec.sessionId].injectionsTokens = @ + rec.tokensUsed,
          ![rec.sessionId].lastActivityAt = now]
  ELSE sessions

\* getSessionInjections(sessionId).map(i => i.taskId)
InjectedTaskIds(sid) ==
  {injections[i].taskId : i \in {j \in DOMAIN injections :
                                   injections[j].sessionId = sid}}

\* ---------------------------------------------------- injection manager

\* A faulty canInject whose count limit is off by one (> for >=).
canInjectOffByOne(session) ==
  /\ ~(session.injectionsCount > maxPerSession)
  /\ ~(session.injectionsTokens >= maxTotalTokensPerSession)

\* canInject: the count limit, then the token limit.
canInject(session) ==
  /\ ~(session.injectionsCount >= maxPerSession)
  /\ ~(session.injectionsTokens >= maxTotalTokensPerSession)

\* isInCooldown: the manager instance's own lastInjectionTime map; a missing
\* entry, or a stored 0, is "not in cooldown" (!lastTime).
isInCooldown(sid) ==
  LET lastTime == lastInjectionTime[sid]
  IN IF lastTime = None \/ lastTime = 0
     THEN FALSE
     ELSE now - lastTime < cooldownMs

\* calculateTextRelevance, in thousandths of the 0.25 weight: word overlap
\* over the smaller word set, 0 when either text has no word.
ContextMilli(words1, words2) ==
  IF Cardinality(words1) = 0 \/ Cardinality(words2) = 0
  THEN 0
  ELSE (250 * Cardinality(words1 \cap words2))
         \div Min(Cardinality(words1), Cardinality(words2))

\* scoreCandidate, in thousandths.
scoreCandidate(id, ctx) ==
  LET t == tasks[id]
      r == Result(t.result)
      ageMs == now - (IF t.completedAt # 0 THEN t.completedAt ELSE t.createdAt)
      recency == IF ageMs < 5 * 60000 THEN 300
                 ELSE IF ageMs < 15 * 60000 THEN 200
                 ELSE IF ageMs < 30 * 60000 THEN 100 ELSE 0
      prio == IF t.priority >= 8 THEN 200
              ELSE IF t.priority >= 6 THEN 100 ELSE 0
      srcs == IF t.sourceRows >= 5 THEN 150
              ELSE IF t.sourceRows >= 3 THEN 100 ELSE 0
      rel == IF ctx # NoContext /\ r.summaryLen > 0
             THEN ContextMilli(r.words, ctx) ELSE 0
  IN IF ~HasResult(t) THEN 0
     ELSE Min(r.confidence * 3 + recency + prio + srcs + rel, 1000)

\* formatTaskInjection: the length of the rendered text, parts joined by
\* newlines; rows read from the store never carry a pivot.
formatTaskInjectionLen(id) ==
  LET t == tasks[id]
      r == Result(t.result)
      maxChars == maxTokensPerInjection * 4
      summary == IF r.summaryLen > maxChars - 100
                 THEN (maxChars - 103) + 3 ELSE r.summaryLen
      open == <<25 + QueryLen + 2, summary>>
      source == IF t.sourceRows > 0
                THEN <<8 + r.titleLen + 2 + r.urlLen + 1>> ELSE <<>>
      digits == IF t.sourceRows >= 10 THEN 2 ELSE 1
      followup == IF t.sourceRows > 1 \/ (r.fullLen > 0 /\ r.fullLen > summary * 2)
                  THEN <<0, digits + 53>> ELSE <<>>
      parts == open \o source \o followup \o <<19>>
      Sum[i \in 0..Len(parts)] == IF i = 0 THEN 0 ELSE parts[i] + Sum[i - 1]
  IN IF ~HasResult(t) THEN 0 ELSE Sum[Len(parts)] + (Len(parts) - 1)

\* A faulty candidate filter that looks at the session and the result only.
IsCandidateResultOnly(id, sid) ==
  /\ tasks[id].sessionId = sid
  /\ HasResult(tasks[id])

\* getInjection's candidate filter over getRecentTasks(20).
IsCandidate(id, sid) ==
  /\ tasks[id].status = "completed"
  /\ tasks[id].sessionId = sid
  /\ HasResult(tasks[id])
  /\ id \notin InjectedTaskIds(sid)

\* The scored list: candidates above the threshold, sorted by score
\* descending with a stable sort; best is its first element.
BestOf(recent, sid, ctx) ==
  LET cand == {i \in DOMAIN recent : IsCandidate(recent[i], sid)}
      scored == {i \in cand : scoreCandidate(recent[i], ctx) > MinRelevanceMilli}
  IN IF scored = {} THEN 0
     ELSE recent[CHOOSE i \in scored :
            \A j \in scored :
              \/ scoreCandidate(recent[i], ctx) > scoreCandidate(recent[j], ctx)
              \/ /\ scoreCandidate(recent[i], ctx) = scoreCandidate(recent[j], ctx)
                 /\ i <= j]

\* A faulty getInjection that checks the cooldown before the budget.
InjectionGateCooldownFirst(sid, recent, ctx) ==
  IF sid \notin DOMAIN sessions THEN 1
  ELSE IF isInCooldown(sid) THEN 3
  ELSE IF ~canInject(sessions[sid]) THEN 2
  ELSE IF BestOf(recent, sid, ctx) = 0 THEN 4
  ELSE 0

\* The gate at which getInjection stops (0: none, content is returned).
InjectionGate(sid, recent, ctx) ==
  IF sid \notin DOMAIN sessions THEN 1
  ELSE IF ~canInject(sessions[sid]) THEN 2
  ELSE IF isInCooldown(sid) THEN 3
  ELSE IF BestOf(recent, sid, ctx) = 0 THEN 4
  ELSE 0

\* recordInjection (manager): the record, the store's recordInjection,
\* updateTaskStatus(injected), then the instance's cooldown tracker.
TaskRecord(sid, id) ==
  [taskId |-> id, sessionId |-> sid, injectedAt |-> now,
   tokensUsed |-> CeilDiv(formatTaskInjectionLen(id), 4)]

\* A faulty manager that starts the cooldown on every call for a known
\* session, injected or not.
trackerAfterAnyCall(sid, gate) ==
  IF gate # 1
  THEN [lastInjectionTime EXCEPT ![sid] = now]
  ELSE lastInjectionTime

\* The cooldown tracker after a call that stopped at gate (0: injected).
trackerAfter(sid, gate) ==
  IF gate = 0
  THEN [lastInjectionTime EXCEPT ![sid] = now]
  ELSE lastInjectionTime

getInjection(sid, ctx) ==
  \E recent \in getRecentTasks(RecentLimit) :
    LET gate == InjectionGate(sid, recent, ctx)
        best == BestOf(recent, sid, ctx)
        rec == TaskRecord(sid, best)
        call == [NoLast EXCEPT !.op = "getInjection", !.sid = sid]
    IN /\ lastInjectionTime' = trackerAfter(sid, gate)
       /\ IF gate # 0
          THEN /\ last' = [call EXCEPT !.result = "none", !.gate = gate,
                             !.ctx = IF gate = 4 THEN ctx ELSE {}]
               /\ UNCHANGED <<tasks, sessions, injections>>
          ELSE /\ injections' = dbRecordInjections(rec)
               /\ sessions' = dbRecordSessions(rec)
               /\ tasks' = updateTaskStatus(tasks, best, "injected", "")
               /\ last' = [call EXCEPT !.result = "content", !.ctx = ctx]

GetInjection ==
  /\ \E sid \in SessionIds, ctx \in Contexts :
       getInjection(sid, ctx)
  /\ UNCHANGED <<runs, conversation>>
  /\ UNCHANGED <<now, fkEnforced, running, retries>>

\* determineInjectionType with the test for combined made first.
determineInjectionTypeCombinedFirst(memory, research) ==
  LET memoryScore == IF memory = None THEN 0 ELSE memory
      researchScore == IF research = None THEN 0 ELSE research
  IN IF memoryScore >= combinedThreshold /\ researchScore >= combinedThreshold
     THEN "combined"
     ELSE IF memoryScore >= memoryOnlyThreshold /\ memoryScore > researchScore
     THEN "memory-only"
     ELSE IF researchScore >= researchOnlyThreshold
     THEN "research-only"
     ELSE IF memoryScore >= minRelevanceScore
     THEN "memory-only"
     ELSE "none"

\* determineInjectionType over the best memory and research scores
\* (hundredths; a missing candidate scores 0).
determineInjectionType(memory, research) ==
  LET memoryScore == IF memory = None THEN 0 ELSE memory
      researchScore == IF research = None THEN 0 ELSE research
  IN IF memoryScore >= memoryOnlyThreshold /\ memoryScore > researchScore
     THEN "memory-only"
     ELSE IF memoryScore >= combinedThreshold /\ researchScore >= combinedThreshold
     THEN "combined"
     ELSE IF researchScore >= researchOnlyThreshold
     THEN "research-only"
     ELSE IF memoryScore >= minRelevanceScore
     THEN "memory-only"
     ELSE "none"

\* The point at which getUnifiedInjection returns null: gates 1 to 3 as in
\* getInjection, 4 adapter not ready, 5 type none, 6 the candidate the type
\* needs is missing; 0 when an injection is formatted.
UnifiedGate(sid, ready, memory, research) ==
  LET type == determineInjectionType(memory, research)
  IN IF sid \notin DOMAIN sessions THEN 1
     ELSE IF ~canInject(sessions[sid]) THEN 2
     ELSE IF isInCooldown(sid) THEN 3
     ELSE IF ~ready THEN 4
     ELSE IF type = "none" THEN 5
     ELSE IF \/ type = "memory-only" /\ memory = None
             \/ type = "research-only" /\ research = None
             \/ type = "combined" /\ (memory = None \/ research = None)
     THEN 6
     ELSE 0

\* recordUnifiedInjection: a record under a synthetic task id (0 here, no
\* research_tasks row has it), the store's recordInjection, the tracker.
UnifiedRecord(sid, tokens) ==
  [taskId |-> 0, sessionId |-> sid, injectedAt |-> now, tokensUsed |-> tokens]

getUnifiedInjection(sid, ready, memory, research, tokens) ==
  LET gate == UnifiedGate(sid, ready, memory, research)
      rec == UnifiedRecord(sid, tokens)
      call == [NoLast EXCEPT !.op = "getUnifiedInjection", !.sid = sid]
  IN IF gate # 0
     THEN /\ last' = [call EXCEPT !.result = "none", !.gate = gate]
          /\ lastInjectionTime' = trackerAfter(sid, gate)
          /\ UNCHANGED <<sessions, injections>>
     ELSE IF InsertFails(rec)
     THEN /\ last' = [call EXCEPT !.result = "error"]
          /\ UNCHANGED <<sessions, injections, lastInjectionTime>>
     ELSE /\ injections' = dbRecordInjections(rec)
          /\ sessions' = dbRecordSessions(rec)
          /\ lastInjectionTime' = trackerAfter(sid, gate)
          /\ last' = [call EXCEPT !.result = "content"]

\* What the knowledge adapter answers to a call: whether it is ready and the
\* scores of its best memory and research candidates. A call that stops at
\* one of the first three gates never asks the adapter.
AdapterAnswers(sid) ==
  IF UnifiedGate(sid, FALSE, None, None) # 4
  THEN {<<FALSE, None, None>>}
  ELSE ({FALSE} \X {None} \X {None})
         \cup ({TRUE} \X CandidateScores \X CandidateScores)

GetUnifiedInjection ==
  /\ \E sid \in SessionIds :
       \E answer \in AdapterAnswers(sid) :
         \E tokens \in IF UnifiedGate(sid, answer[1], answer[2], answer[3]) = 0
                        THEN UnifiedTokens ELSE {0} :
           getUnifiedInjection(sid, answer[1], answer[2], answer[3], tokens)
  /\ UNCHANGED <<runs, conversation>>
  /\ UNCHANGED <<now, tasks, fkEnforced, running, retries>>

\* Session registration by the session lifecycle: a new row starts with
\* both counters at 0.
UpsertSession ==
  /\ \E sid \in SessionIds :
       /\ sessions' = upsertSession(sessions, sid, 0, 0)
       /\ last' = NoLast
  /\ UNCHANGED <<runs, conversation>>
  /\ UNCHANGED <<now, tasks, injections, lastInjectionTime, fkEnforced,
                 running, retries>>

\* -------------------------------------------------------- queue manager

\* enqueue: rejected (capacity exceeded) when the queue is at its maximum
\* size, otherwise a new queued task is stored.
EnqueueFor(sids, prios, maxTasks) ==
  /\ Len(tasks) < maxTasks \/ QueuedCount >= maxQueueSize
  /\ \E sid \in sids, prio \in prios :
       IF QueuedCount >= maxQueueSize
       THEN /\ last' = [NoLast EXCEPT !.op = "enqueue",
                          !.result = "capacity-exceeded"]
            /\ UNCHANGED <<tasks, retries, running>>
       ELSE /\ tasks' = createTask(tasks, sid, prio)
            /\ retries' = Append(retries, 0)
            /\ running' = Append(running, 0)
            /\ last' = [NoLast EXCEPT !.op = "enqueue", !.result = "queued"]
  /\ UNCHANGED <<runs, conversation>>
  /\ UNCHANGED <<now, sessions, injections, lastInjectionTime, fkEnforced>>

Enqueue == EnqueueFor(TaskSessions, {7}, MaxTasks)

\* dequeue-batch(n): a read of getQueuedTasks(n).
DequeueBatch ==
  /\ \E n \in BatchLimits : \E batch \in getQueuedTasks(n) :
       last' = [NoLast EXCEPT !.op = "dequeue", !.gate = n, !.batch = batch]
  /\ UNCHANGED <<runs, conversation>>
  /\ UNCHANGED <<now, tasks, sessions, injections, lastInjectionTime,
                 fkEnforced, running, retries>>

\* The number of workers that hold some task.
BusyWorkers == SumOver(running)

\* An idle worker takes the head of the queue: the task turns running and the
\* worker holds it, in one step.
WorkerClaim ==
  /\ BusyWorkers < maxConcurrent
  /\ \E batch \in getQueuedTasks(1) :
       /\ batch # <<>>
       /\ tasks' = updateTaskStatus(tasks, batch[1], "running", "")
       /\ running' = [running EXCEPT ![batch[1]] = @ + 1]
  /\ last' = NoLast
  /\ UNCHANGED <<runs, conversation>>
  /\ UNCHANGED <<now, sessions, injections, lastInjectionTime, fkEnforced,
                 retries>>

\* The coordinator run of a held task ends and its result is stored; the
\* queue manager forgets the task's retry counter.
WorkerCompleteOf(kinds) ==
  /\ \E id \in DOMAIN running, k \in kinds :
       /\ running[id] > 0
       /\ tasks' = saveTaskResult(tasks, id, k)
       /\ retries' = [retries EXCEPT ![id] = 0]
       /\ running' = [running EXCEPT ![id] = @ - 1]
  /\ last' = NoLast
  /\ UNCHANGED <<runs, conversation>>
  /\ UNCHANGED <<now, sessions, injections, lastInjectionTime, fkEnforced>>

WorkerComplete == WorkerCompleteOf(ResultKinds)

\* A faulty timeout handler that re-enqueues without counting the retry.
WorkerTimeoutUncounted ==
  /\ \E id \in DOMAIN running :
       /\ running[id] > 0
       /\ tasks' = updateTaskStatus(
                      updateTaskStatus(tasks, id, "failed", "timeout"),
                      id, "queued", "")
       /\ running' = [running EXCEPT ![id] = @ - 1]
  /\ last' = NoLast
  /\ UNCHANGED <<runs, conversation>>
  /\ UNCHANGED <<now, sessions, injections, lastInjectionTime, fkEnforced,
                 retries>>

\* A held task exceeds taskTimeoutMs: it is failed with the timeout as its
\* error, and goes back to the queue with its retry counter incremented
\* while it has retries left.
WorkerTimeout ==
  /\ \E id \in DOMAIN running :
       LET failed == updateTaskStatus(tasks, id, "failed", "timeout")
       IN /\ running[id] > 0
          /\ IF retries[id] < retryAttempts
             THEN /\ tasks' = updateTaskStatus(failed, id, "queued", "")
                  /\ retries' = [retries EXCEPT ![id] = @ + 1]
             ELSE /\ tasks' = failed
                  /\ retries' = [retries EXCEPT ![id] = 0]
       /\ running' = [running EXCEPT ![id] = @ - 1]
  /\ last' = NoLast
  /\ UNCHANGED <<runs, conversation>>
  /\ UNCHANGED <<now, sessions, injections, lastInjectionTime, fkEnforced>>

Init ==
  /\ now = StartMs
  /\ tasks = <<>>
  /\ sessions = [s \in {} |-> 0]
  /\ injections = <<>>
  /\ lastInjectionTime = [s \in SessionIds |-> None]
  /\ fkEnforced \in BOOLEAN
  /\ running = <<>>
  /\ retries = <<>>
  /\ runs = <<>>
  /\ conversation = NoConversation
  /\ last = NoLast

\* The wall clock advances between calls; calls within one millisecond see
\* the same Date.now().
TickBy(stepMs, maxTicks) ==
  /\ now + stepMs <= StartMs + maxTicks * stepMs
  /\ now' = now + stepMs
  /\ last' = NoLast
  /\ UNCHANGED <<runs, conversation>>
  /\ UNCHANGED <<tasks, sessions, injections, lastInjectionTime, fkEnforced,
                 running, retries>>

\* The clock of the whole system advances by one cooldown interval at a
\* time, as often as a session needs to use up its count budget.
Tick == TickBy(cooldownMs, maxPerSession - 1)

\* new InjectionManager(budget): the instance that serves the calls from now
\* on starts with an empty lastInjectionTime map; the store is shared.
NewManager ==
  /\ lastInjectionTime # [s \in SessionIds |-> None]
  /\ lastInjectionTime' = [s \in SessionIds |-> None]
  /\ last' = NoLast
  /\ UNCHANGED <<runs, conversation>>
  /\ UNCHANGED <<now, tasks, sessions, injections, fkEnforced, running,
                 retries>>

Next ==
  \/ Tick
  \/ NewManager
  \/ UpsertSession
  \/ Enqueue
  \/ WorkerClaim
  \/ WorkerComplete
  \/ WorkerTimeout
  \/ GetInjection
  \/ GetUnifiedInjection

Spec == Init /\ [][Next]_vars
\* ------------------------------------------------ properties: injection

\* The records of session sid, in the order they were stored.
RecordsOf(sid) == {i \in DOMAIN injections : injections[i].sessionId = sid}

\* C1: for every session, any two injection records have timestamps at
\* least cooldownMs apart, whichever manager instance recorded them.
C1_RecordsCooldownApart ==
  \A sid \in SessionIds :
    \A i, j \in RecordsOf(sid) :
      i < j => injections[j].injectedAt - injections[i].injectedAt >= cooldownMs

\* C2: a getInjection or getUnifiedInjection call that returns content
\* stores exactly one record for the session, adds 1 to injectionsCount and
\* the record's tokensUsed to injectionsTokens, and sets the cooldown clock
\* of the session to the time of the call.
C2_ContentRecordedOnce ==
  [][last'.result = "content" =>
       LET sid == last'.sid
           rec == injections'[Len(injections')]
       IN /\ Len(injections') = Len(injections) + 1
          /\ SubSeq(injections', 1, Len(injections)) = injections
          /\ rec.sessionId = sid
          /\ rec.injectedAt = now
          /\ sid \in DOMAIN sessions
          /\ sessions'[sid].injectionsCount = sessions[sid].injectionsCount + 1
          /\ sessions'[sid].injectionsTokens =
               sessions[sid].injectionsTokens + rec.tokensUsed
          /\ rec.tokensUsed > 0
          /\ lastInjectionTime'[sid] = now]_vars

C2_Witness ==
  /\ last.result = "content"
  /\ Len(injections) = 2
  /\ sessions[last.sid].injectionsCount = 2

\* What the four gates of getInjection ask of the state before the call.
SessionExists(sid) == sid \in DOMAIN sessions

WithinBudget(sid) ==
  /\ sessions[sid].injectionsCount < maxPerSession
  /\ sessions[sid].injectionsTokens < maxTotalTokensPerSession

CooldownElapsed(sid) ==
  \/ lastInjectionTime[sid] = None
  \/ now - lastInjectionTime[sid] >= cooldownMs

SomeCandidateClears(sid, ctx) ==
  \E id \in DOMAIN tasks :
    /\ tasks[id].status = "completed"
    /\ tasks[id].sessionId = sid
    /\ tasks[id].result # 0
    /\ \A i \in RecordsOf(sid) : injections[i].taskId # id
    /\ scoreCandidate(id, ctx) > MinRelevanceMilli

\* C3: getInjection returns content only if the session exists, is within
\* its count and token budgets, is out of its cooldown and has a scored
\* candidate above the threshold; a call that returns nothing stopped at
\* the first of these gates, in this order, that failed.
C3_GatesInOrder ==
  [][last'.op = "getInjection" =>
       LET sid == last'.sid
           g1 == SessionExists(sid)
           g2 == g1 /\ WithinBudget(sid)
           g3 == g2 /\ CooldownElapsed(sid)
           g4 == g3 /\ SomeCandidateClears(sid, last'.ctx)
       IN /\ last'.result = "content" <=> g4
          /\ last'.result = "none" =>
               /\ last'.gate = 1 <=> ~g1
               /\ last'.gate = 2 <=> g1 /\ ~g2
               /\ last'.gate = 3 <=> g2 /\ ~g3
               /\ last'.gate = 4 <=> g3 /\ ~g4]_vars

C3_Witness ==
  /\ last.op = "getInjection"
  /\ last.result = "none"
  /\ last.gate = 2
  /\ isInCooldown(last.sid)

\* C4: a getInjection or getUnifiedInjection call that returns none leaves
\* the session counters, the injection records, every task and the cooldown
\* clock as they were.
C4_NoneChangesNothing ==
  [][last'.result = "none" =>
       UNCHANGED <<tasks, sessions, injections, lastInjectionTime>>]_vars

C4_Witness ==
  /\ last.result = "none"
  /\ last.op = "getUnifiedInjection"
  /\ last.gate = 5
  /\ Len(injections) = 1

\* C5: the number of injections issued to a session never exceeds
\* maxPerSession.
C5_CountWithinBudget ==
  \A sid \in DOMAIN sessions :
    sessions[sid].injectionsCount <= maxPerSession

C5_Witness ==
  /\ last.result = "none"
  /\ last.gate = 2
  /\ sessions[last.sid].injectionsCount = maxPerSession
  /\ sessions[last.sid].injectionsTokens < maxTotalTokensPerSession

\* ------------------------------------------------ properties: lifecycle

\* The status changes of the task state machine.
LifecycleEdges ==
  {<<"queued", "running">>, <<"running", "completed">>,
   <<"running", "failed">>, <<"completed", "injected">>}

\* The status change of a timed-out task that is retried.
RetryEdge == <<"running", "queued">>

\* Every task's status changes along an edge of E only, and a new task
\* starts queued.
ChangesAlong(E) ==
  /\ \A id \in DOMAIN tasks :
       \/ tasks'[id].status = tasks[id].status
       \/ <<tasks[id].status, tasks'[id].status>> \in E
  /\ \A id \in DOMAIN tasks' \ DOMAIN tasks : tasks'[id].status = "queued"

MaxQueueTasks == 2
MaxQueueTicks == 1

InitQueue == Init /\ fkEnforced = TRUE

TickQueue == TickBy(1, MaxQueueTicks)

EnqueueQueue == EnqueueFor(SessionIds, Priorities, MaxQueueTasks)

WorkerCompleteQueue == WorkerCompleteOf({2})

NextQueue ==
  \/ TickQueue
  \/ EnqueueQueue
  \/ DequeueBatch
  \/ WorkerClaim
  \/ WorkerCompleteQueue
  \/ WorkerTimeout

SpecQueue == InitQueue /\ [][NextQueue]_vars

\* The queue when every attempt of every task runs past its timeout: no run
\* of the coordinator ever ends in time. An idle worker eventually claims a
\* queued task, and the timer of a held task eventually fires.
NextTimeouts ==
  \/ TickQueue
  \/ EnqueueQueue
  \/ WorkerClaim
  \/ WorkerTimeout

FairSpecTimeouts ==
  /\ InitQueue
  /\ [][NextTimeouts]_vars
  /\ WF_vars(WorkerClaim)
  /\ WF_vars(WorkerTimeout)
\* ---------------------------------------------------- properties: queue

\* The tasks that are queued, and their number.
Waiting == {id \in DOMAIN tasks : tasks[id].status = "queued"}

\* Task a is to be dequeued before task b: higher priority first, and among
\* equal priorities the task enqueued first (ids grow in enqueue order).
DequeuedBefore(a, b) ==
  \/ tasks[a].priority > tasks[b].priority
  \/ tasks[a].priority = tasks[b].priority /\ a < b

\* C6: dequeue-batch(n) returns the first n queued tasks (all of them when
\* fewer are queued) by priority descending and, among equal priorities, in
\* enqueue order.
C6_DequeueOrder ==
  last.op = "dequeue" =>
    LET batch == last.batch
    IN /\ Len(batch) = Min(last.gate, Cardinality(Waiting))
       /\ \A i \in DOMAIN batch : batch[i] \in Waiting
       /\ \A i, j \in DOMAIN batch : i < j => DequeuedBefore(batch[i], batch[j])
       /\ \A id \in Waiting :
            \/ \E i \in DOMAIN batch : batch[i] = id
            \/ \A i \in DOMAIN batch : DequeuedBefore(batch[i], id)

\* C7: an enqueue made while the queued tasks number maxQueueSize (or more)
\* is rejected with capacity-exceeded and adds no task; any other enqueue
\* adds one queued task and leaves at most maxQueueSize queued. When only
\* enqueue has added to the queue (no timed-out task was put back), a
\* rejected enqueue finds exactly maxQueueSize tasks queued.
C7_CapacityExceeded ==
  [][last'.op = "enqueue" =>
       IF Cardinality(Waiting) >= maxQueueSize
       THEN /\ last'.result = "capacity-exceeded"
            /\ tasks' = tasks
            /\ (\A id \in DOMAIN tasks : tasks[id].error = "none")
                 => Cardinality(Waiting) = maxQueueSize
       ELSE /\ last'.result = "queued"
            /\ Len(tasks') = Len(tasks) + 1
            /\ SubSeq(tasks', 1, Len(tasks)) = tasks
            /\ tasks'[Len(tasks')].status = "queued"
            /\ Cardinality(Waiting) + 1 <= maxQueueSize]_vars

C7_Witness ==
  /\ last.op = "enqueue"
  /\ last.result = "capacity-exceeded"
  /\ Cardinality(Waiting) = maxQueueSize
  /\ \A id \in DOMAIN tasks : tasks[id].error = "none"

MaxStoreTasks == 1
MaxStoreTicks == 1
MaxSourceRows == 8

StoreResultKinds == {1, 2, 3}
StoreStatuses == {"queued", "running", "failed"}

StoreCall(op, id, k) == [op |-> op, id |-> id, kind |-> k]

StoreCreateTask ==
  /\ Len(tasks) < MaxStoreTasks
  /\ \E sid \in SessionIds, prio \in {7} :
       /\ tasks' = createTask(tasks, sid, prio)
       /\ last' = StoreCall("createTask", Len(tasks) + 1, 0)
  /\ UNCHANGED <<runs, conversation>>
  /\ UNCHANGED <<now, sessions, injections, lastInjectionTime, fkEnforced,
                 running, retries>>

StoreUpdateTaskStatus ==
  /\ \E id \in DOMAIN tasks, status \in StoreStatuses :
       /\ tasks' = updateTaskStatus(tasks, id, status,
                                    IF status = "failed" THEN "timeout" ELSE "")
       /\ last' = StoreCall("updateTaskStatus", id, 0)
  /\ UNCHANGED <<runs, conversation>>
  /\ UNCHANGED <<now, sessions, injections, lastInjectionTime, fkEnforced,
                 running, retries>>

StoreSaveTaskResult ==
  /\ \E id \in DOMAIN tasks, k \in StoreResultKinds :
       /\ tasks[id].sourceRows + Result(k).sources <= MaxSourceRows
       /\ tasks' = saveTaskResult(tasks, id, k)
       /\ last' = StoreCall("saveTaskResult", id, k)
  /\ UNCHANGED <<runs, conversation>>
  /\ UNCHANGED <<now, sessions, injections, lastInjectionTime, fkEnforced,
                 running, retries>>

TickStore == TickBy(1, MaxStoreTicks)

NextStore ==
  \/ TickStore
  \/ StoreCreateTask
  \/ StoreUpdateTaskStatus
  \/ StoreSaveTaskResult

SpecStore == InitQueue /\ [][NextStore]_vars

\* ---------------------------------------------------- properties: store

\* C11: once a task is completed or failed, a saveTaskResult for it leaves
\* the stored row (status, result columns, source rows) as it was.
C11_NoWriteAfterTerminal ==
  [][\A id \in DOMAIN tasks :
       ( /\ last'.op = "saveTaskResult"
         /\ last'.id = id
         /\ tasks[id].status \in {"completed", "failed"} )
       => tasks'[id] = tasks[id]]_vars

\* ------------------------------------------- coordinator runs of workers

\* ResearchDirective.maxIterations: the number of plan/dispatch/evaluate
\* rounds a run may take.
maxIterations == 2

MaxRunTasks == 1

\* A run of the coordinator for a claimed task: the phase it is in, the
\* iteration of its loop, and whether the timeout of its task has fired
\* (the cancellation the worker pool signals).
NewRun(id) ==
  [task |-> id, phase |-> "plan", iteration |-> 1, cancelled |-> FALSE]

\* The phase that follows a phase of the run; complete is the outcome of
\* evaluate. plan, evaluate and synthesize take the directive and the
\* findings only: no phase reads the cancellation.
NextPhase(run, complete) ==
  CASE run.phase = "plan" -> [run EXCEPT !.phase = "dispatch"]
    [] run.phase = "dispatch" -> [run EXCEPT !.phase = "evaluate"]
    [] run.phase = "evaluate" ->
         IF complete \/ run.iteration >= maxIterations
         THEN [run EXCEPT !.phase = "synthesize"]
         ELSE [run EXCEPT !.phase = "dispatch", !.iteration = @ + 1]
    [] run.phase = "synthesize" -> [run EXCEPT !.phase = "done"]
    [] OTHER -> run

EnqueueRuns == EnqueueFor(SessionIds, {7}, MaxRunTasks)

\* An idle worker takes the head of the queue and starts a coordinator run
\* for it.
WorkerClaimRun ==
  /\ BusyWorkers < maxConcurrent
  /\ \E batch \in getQueuedTasks(1) :
       /\ batch # <<>>
       /\ tasks' = updateTaskStatus(tasks, batch[1], "running", "")
       /\ running' = [running EXCEPT ![batch[1]] = @ + 1]
       /\ runs' = Append(runs, NewRun(batch[1]))
  /\ last' = NoLast
  /\ UNCHANGED <<now, sessions, injections, lastInjectionTime, fkEnforced,
                 retries, conversation>>

\* A run finishes its phase and enters the next one.
CoordinatorStep ==
  /\ \E r \in DOMAIN runs, complete \in BOOLEAN :
       /\ runs[r].phase \in {"plan", "dispatch", "evaluate", "synthesize"}
       /\ runs' = [runs EXCEPT ![r] = NextPhase(runs[r], complete)]
  /\ last' = NoLast
  /\ UNCHANGED <<now, tasks, sessions, injections, lastInjectionTime,
                 fkEnforced, running, retries, conversation>>

\* A run has returned its synthesis: the worker stores it as the result of
\* the run's task. The worker of a run that was not timed out gives up its
\* hold of the task.
WorkerStoreRun ==
  /\ \E r \in DOMAIN runs, k \in {2} :
       LET id == runs[r].task
       IN /\ runs[r].phase = "done"
          /\ tasks' = saveTaskResult(tasks, id, k)
          /\ runs' = [runs EXCEPT ![r].phase = "stored"]
          /\ IF runs[r].cancelled
             THEN UNCHANGED <<running, retries>>
             ELSE /\ running' = [running EXCEPT ![id] = @ - 1]
                  /\ retries' = [retries EXCEPT ![id] = 0]
  /\ last' = NoLast
  /\ UNCHANGED <<now, sessions, injections, lastInjectionTime, fkEnforced,
                 conversation>>

\* The timeout of a held task fires while its run has not been stored: the
\* task is force-failed and re-enqueued as in WorkerTimeout, and the run is
\* told to cancel.
WorkerTimeoutRun ==
  /\ \E r \in DOMAIN runs :
       LET id == runs[r].task
           failed == updateTaskStatus(tasks, id, "failed", "timeout")
       IN /\ ~runs[r].cancelled
          /\ runs[r].phase \notin {"stored", "aborted"}
          /\ IF retries[id] < retryAttempts
             THEN /\ tasks' = updateTaskStatus(failed, id, "queued", "")
                  /\ retries' = [retries EXCEPT ![id] = @ + 1]
             ELSE /\ tasks' = failed
                  /\ retries' = [retries EXCEPT ![id] = 0]
          /\ running' = [running EXCEPT ![id] = @ - 1]
          /\ runs' = [runs EXCEPT ![r].cancelled = TRUE]
  /\ last' = NoLast
  /\ UNCHANGED <<now, sessions, injections, lastInjectionTime, fkEnforced,
                 conversation>>

NextRuns ==
  \/ EnqueueRuns
  \/ WorkerClaimRun
  \/ CoordinatorStep
  \/ WorkerStoreRun
  \/ WorkerTimeoutRun

SpecRuns == InitQueue /\ [][NextRuns]_vars

\* ------------------------------------------- properties: coordinator runs

\* C13: a run whose task was force-failed by its timeout enters no further
\* phase (it stays where it is or aborts), and its result is never stored.
C13_StaleRunAborts ==
  [][\A r \in DOMAIN runs :
       runs[r].cancelled =>
         runs'[r].phase \in {runs[r].phase, "aborted"}]_vars

\* C12: a task that carries a result has been completed (it is completed,
\* or injected after it): no queued, running or failed task has a result.
\* (A row has one set of result columns, so a task never has two results.)
C12_ResultOnlyIfCompleted ==
  \A id \in DOMAIN tasks :
    getTask(tasks, id).result # NoResult =>
      tasks[id].status \notin {"queued", "running", "failed"}

\* C14: after saveTaskResult(id, r), getTask(id) returns a result with the
\* summary of r, the confidence of r and as many sources as r has.
C14_RoundTrip ==
  (last.op = "saveTaskResult") =>
    LET written == Result(last.kind)
        read == getTask(tasks, last.id).result
    IN /\ read # NoResult
       /\ read.kind = last.kind
       /\ read.summaryLen = written.summaryLen
       /\ read.confidence = written.confidence
       /\ read.sources = written.sources

\* ------------------------------------------------------ trigger detector

\* questionPatterns: the weight (hundredths) of each rule, in declaration
\* order.
questionPatterns == <<70, 80, 90, 85, 75, 85, 90, 70, 95>>

MinPromptLength == 10

\* A prompt is given by the length of its trimmed text, whether a negative
\* pattern matches it, the question rules that match it, and whether it
\* contains a question mark.
MaxMatches == 2
PromptLengths == {5, 40}

Prompts ==
  [len : PromptLengths, negative : BOOLEAN,
   matches : {S \in SUBSET DOMAIN questionPatterns :
                Cardinality(S) <= MaxMatches},
   qmark : BOOLEAN]

\* A DetectedTrigger; rule is the question rule it comes from (0: none),
\* cause what was detected, key the detected error text.
Trigger(should, prio, conf, rule, cause, key) ==
  [shouldResearch |-> should, priority |-> prio, confidence |-> conf,
   rule |-> rule, cause |-> cause, key |-> key]

NoTrigger(cause) == Trigger(FALSE, 0, 0, 0, cause, <<>>)

\* Math.round(weight * 10) for a weight in hundredths.
RoundTenths(w) == (w + 5) \div 10

RuleTrigger(i) ==
  Trigger(TRUE, RoundTenths(questionPatterns[i]), questionPatterns[i], i,
          "pattern", <<>>)

\* A faulty comparison that lets a later rule of equal weight replace the
\* best match.
ReplacesOnTie(trigger, bestMatch) ==
  bestMatch.rule = 0 \/ trigger.confidence >= bestMatch.confidence

\* !bestMatch || trigger.confidence > bestMatch.confidence
Replaces(trigger, bestMatch) ==
  bestMatch.rule = 0 \/ trigger.confidence > bestMatch.confidence

\* The loop over questionPatterns from rule i on, with the best match so far.
RECURSIVE BestMatch(_, _, _)
BestMatch(i, matches, bestMatch) ==
  IF i > Len(questionPatterns) THEN bestMatch
  ELSE IF i \in matches /\ Replaces(RuleTrigger(i), bestMatch)
       THEN BestMatch(i + 1, matches, RuleTrigger(i))
       ELSE BestMatch(i + 1, matches, bestMatch)

\* analyzePrompt after its two early returns: the question rules, then the
\* question mark.
MatchPrompt(prompt) ==
  LET bestMatch == BestMatch(1, prompt.matches, NoTrigger("none"))
  IN IF bestMatch.rule # 0 THEN bestMatch
     ELSE IF prompt.qmark THEN Trigger(TRUE, 5, 50, 0, "question-mark", <<>>)
     ELSE NoTrigger("none")

\* A faulty analyzePrompt that looks at the question rules and the question
\* mark before the negative patterns and the length.
analyzePromptRulesFirst(prompt) ==
  IF MatchPrompt(prompt).shouldResearch THEN MatchPrompt(prompt)
  ELSE IF prompt.negative THEN NoTrigger("negative")
  ELSE NoTrigger("short")

analyzePrompt(prompt) ==
  IF prompt.negative THEN NoTrigger("negative")
  ELSE IF prompt.len < MinPromptLength THEN NoTrigger("short")
  ELSE MatchPrompt(prompt)

\* A tool output is given by its tool, whether it is longer than 50
\* characters, and what it contains: nothing of interest, a TODO comment, a
\* deprecation notice, or an error. An error is the pattern that announces
\* it, its text and the length of the text.
Tools == {"Read", "Grep", "Glob", "Bash"}

NoError == [pattern |-> "", text |-> "", len |-> 0]

ErrorTexts ==
  {[pattern |-> "error:", text |-> "a", len |-> 30],
   [pattern |-> "error:", text |-> "b", len |-> 80],
   [pattern |-> "npm ERR!", text |-> "c", len |-> 30]}

ToolOutputs ==
  [tool : Tools, long : BOOLEAN, kind : {"plain", "todo", "deprecated"},
   error : {NoError}]
  \cup [tool : Tools, long : BOOLEAN, kind : {"error"}, error : ErrorTexts]

\* The first n characters of an error text.
Captured(error, n) == <<error.text, Min(error.len, n)>>

\* analyzeReadOutput: a TODO/FIXME comment, else a deprecation notice.
analyzeReadOutput(output) ==
  IF output.kind = "todo" THEN Trigger(TRUE, 4, 40, 0, "todo", <<>>)
  ELSE IF output.kind = "deprecated"
       THEN Trigger(TRUE, 5, 50, 0, "deprecated", <<>>)
       ELSE NoTrigger("none")

\* analyzeBashOutput: the first error pattern that matches; /npm ERR! code
\* (.+)/ captures the whole text, /error: (.{10,80})/i its first 80
\* characters. No state is read or written.
analyzeBashOutput(output) ==
  IF output.kind = "error"
  THEN Trigger(TRUE, 6, 60, 0, "error",
               IF output.error.pattern = "npm ERR!"
               THEN Captured(output.error, output.error.len)
               ELSE Captured(output.error, 80))
  ELSE NoTrigger("none")

\* TriggerDetector.analyzeToolOutput: the analyzer registered for the tool;
\* analyzeGrepOutput and analyzeGlobOutput return null.
analyzeToolOutput(output) ==
  IF output.tool = "Read" THEN analyzeReadOutput(output)
  ELSE IF output.tool = "Bash" THEN analyzeBashOutput(output)
  ELSE NoTrigger("none")

\* --------------------------------------------------- conversation analyzer

researchCooldownMs == 30000
minConfidenceToResearch == 60

\* extractErrors: /(?:error|Error|ERROR)[:\s]+(.{10,100})/g, each match cut
\* to 100 characters.
extractErrors(output) ==
  IF output.kind = "error" /\ output.error.pattern = "error:"
  THEN {Captured(output.error, 100)}
  ELSE {}

\* Date.now() - state.lastResearchTime < researchCooldownMs. The clock of
\* the model starts more than researchCooldownMs after the epoch, so the
\* initial lastResearchTime of 0 is never within the cooldown.
InResearchCooldown(state) ==
  /\ state.lastResearchTime # 0
  /\ now - state.lastResearchTime < researchCooldownMs

\* The weight of the analyzer's error pattern for an error.
ErrorWeight(error) == IF error.pattern = "npm ERR!" THEN 85 ELSE 80

\* ConversationAnalyzer.analyzeToolOutput on the state after extractErrors:
\* the pair of the opportunity and the errors of the session afterwards.
\* suggest is the draw Math.random() < 0.3 for a session with two recent
\* searches and a topic.
analyzerToolOutput(errors, output, suggest) ==
  LET errorKey == Captured(output.error, 50)
  IN IF output.kind = "error" /\ errorKey \notin errors
     THEN <<Trigger(ErrorWeight(output.error) >= minConfidenceToResearch,
                    RoundTenths(ErrorWeight(output.error)),
                    ErrorWeight(output.error), 0, "error", errorKey),
            errors \cup {errorKey}>>
     ELSE IF output.kind = "deprecated"
     THEN <<Trigger(TRUE, 5, 60, 0, "deprecated", <<>>), errors>>
     ELSE IF suggest
     THEN <<Trigger(TRUE, 4, 50, 0, "searches", <<>>), errors>>
     ELSE <<NoTrigger("none"), errors>>

\* processToolUse: the errors of the output are added to the session, then
\* analyzeForResearch checks the cooldown and analyzes the output.
processToolUse(state, output, suggest) ==
  LET seen == state.errors \cup extractErrors(output)
  IN IF InResearchCooldown(state)
     THEN <<NoTrigger("cooldown"), [state EXCEPT !.errors = seen]>>
     ELSE LET r == analyzerToolOutput(seen, output, suggest)
          IN <<r[1], [state EXCEPT !.errors = r[2]]>>

\* ------------------------------------------- detector and analyzer calls

MaxTriggerTicks == 1

TriggerCall(op, input, trigger) ==
  [op |-> op, input |-> input, trigger |-> trigger]

AnalyzePrompt ==
  /\ \E prompt \in Prompts :
       last' = TriggerCall("analyzePrompt", prompt, analyzePrompt(prompt))
  /\ UNCHANGED <<now, tasks, sessions, injections, lastInjectionTime,
                 fkEnforced, running, retries, runs, conversation>>

AnalyzeToolOutput ==
  /\ \E output \in ToolOutputs :
       last' = TriggerCall("analyzeToolOutput", output,
                           analyzeToolOutput(output))
  /\ UNCHANGED <<now, tasks, sessions, injections, lastInjectionTime,
                 fkEnforced, running, retries, runs, conversation>>

ProcessToolUse ==
  /\ \E output \in ToolOutputs, suggest \in BOOLEAN :
       LET r == processToolUse(conversation, output, suggest)
       IN /\ last' = TriggerCall("processToolUse", output, r[1])
          /\ conversation' = r[2]
  /\ UNCHANGED <<now, tasks, sessions, injections, lastInjectionTime,
                 fkEnforced, running, retries, runs>>

\* markResearchPerformed: state.lastResearchTime = Date.now().
MarkResearchPerformed ==
  /\ conversation.lastResearchTime # now
  /\ conversation' = [conversation EXCEPT !.lastResearchTime = now]
  /\ last' = NoLast
  /\ UNCHANGED <<now, tasks, sessions, injections, lastInjectionTime,
                 fkEnforced, running, retries, runs>>

TickTriggers == TickBy(researchCooldownMs, MaxTriggerTicks)

\* The detector applied to prompts.
NextPrompts == AnalyzePrompt

SpecPrompts == InitQueue /\ [][NextPrompts]_vars

\* The detector and the conversation analyzer applied to the tool outputs of
\* one session.
NextToolOutputs ==
  \/ TickTriggers
  \/ AnalyzeToolOutput
  \/ ProcessToolUse
  \/ MarkResearchPerformed

SpecToolOutputs == InitQueue /\ [][NextToolOutputs]_vars

\* -------------------------------------------------- properties: triggers

\* C17: for a prompt shorter than the minimum length or matching a negative
\* pattern, analyzePrompt returns shouldResearch = false with confidence 0,
\* whatever question rules or question marks the prompt has.
C17_ShortOrNegativeNoResearch ==
  ( /\ last.op = "analyzePrompt"
    /\ last.input.len < MinPromptLength \/ last.input.negative )
  => /\ ~last.trigger.shouldResearch
     /\ last.trigger.confidence = 0

C17_Witness ==
  /\ last.op = "analyzePrompt"
  /\ last.input.negative
  /\ last.input.len >= MinPromptLength
  /\ last.input.qmark
  /\ last.input.matches # {}
  /\ ~last.trigger.shouldResearch
  /\ last.trigger.confidence = 0

\* C18: when question rules match a prompt that is analyzed for them,
\* analyzePrompt returns the trigger of the matching rule of the highest
\* weight, and of the first declared among those of that weight.
C18_HighestWeightFirstDeclared ==
  ( /\ last.op = "analyzePrompt"
    /\ ~last.input.negative
    /\ last.input.len >= MinPromptLength
    /\ last.input.matches # {} )
  => /\ last.trigger.rule \in last.input.matches
     /\ last.trigger = RuleTrigger(last.trigger.rule)
     /\ \A j \in last.input.matches :
          \/ questionPatterns[j] < questionPatterns[last.trigger.rule]
          \/ /\ questionPatterns[j] = questionPatterns[last.trigger.rule]
             /\ last.trigger.rule <= j

C18_Witness ==
  /\ last.op = "analyzePrompt"
  /\ ~last.input.negative
  /\ last.input.len >= MinPromptLength
  /\ last.input.matches = {3, 7}
  /\ last.trigger.rule = 3

\* C16: when a tool output's error has triggered research, the next tool
\* output of the session with the same error does not trigger research for
\* that error again.
C16_ErrorNotRetriggered ==
  [][( /\ last.op \in {"analyzeToolOutput", "processToolUse"}
       /\ last.trigger.shouldResearch
       /\ last.trigger.cause = "error"
       /\ last'.op = last.op
       /\ last'.input.kind = "error"
       /\ last'.input.error = last.input.error )
     => ~(last'.trigger.shouldResearch /\ last'.trigger.cause = "error")]_vars

\* ------------------------------------------------------------------ hooks

\* The hooks talk to the service over HTTP: /api/analyze/prompt and
\* /api/analyze/tool-output answer with the detector's trigger, and
\* /api/research enqueues a task unless the queue is at its maximum size.
MaxHookTasks == 1

\* The literal of userPromptSubmit's test analysis.data.confidence >= 0.6.
PromptMinConfidence == 60

SKIP_INJECTION_TOOLS == {"Write", "Edit"}

HookPrompts == {prompt \in Prompts : Cardinality(prompt.matches) <= 1}

HookToolOutputs ==
  ToolOutputs
  \cup [tool : SKIP_INJECTION_TOOLS, long : {TRUE}, kind : {"todo"},
        error : {NoError}]

HookCall(op, input, trigger, enqueued) ==
  [op |-> op, input |-> input, trigger |-> trigger, enqueued |-> enqueued]

\* POST /api/research for a session with a priority, or no request at all.
PostResearch(wanted, sid, prio) ==
  IF wanted /\ QueuedCount < maxQueueSize
  THEN /\ tasks' = createTask(tasks, sid, prio)
       /\ retries' = Append(retries, 0)
       /\ running' = Append(running, 0)
  ELSE UNCHANGED <<tasks, retries, running>>

\* userPromptSubmit: health check, session registration, analysis of the
\* prompt, and a research request for a trigger of confidence 0.6 or more.
UserPromptSubmitHook ==
  /\ \E sid \in SessionIds, prompt \in HookPrompts, up \in BOOLEAN :
       LET trigger == IF up THEN analyzePrompt(prompt)
                      ELSE NoTrigger("unavailable")
           wanted == /\ trigger.shouldResearch
                     /\ trigger.confidence >= PromptMinConfidence
       IN /\ wanted => Len(tasks) < MaxHookTasks
          /\ sessions' = IF up THEN upsertSession(sessions, sid, 0, 0)
                         ELSE sessions
          /\ PostResearch(wanted, sid, trigger.priority)
          /\ last' = HookCall("userPromptSubmit", prompt, trigger,
                              wanted /\ QueuedCount < maxQueueSize)
  /\ UNCHANGED <<now, injections, lastInjectionTime, fkEnforced, runs,
                 conversation>>

\* postToolUse up to its injection request: skipped tools, health check,
\* analysis of an output longer than 50 characters, and a research request
\* whenever the analysis says shouldResearch and has a query.
PostToolUseHook ==
  /\ \E sid \in SessionIds, output \in HookToolOutputs, up \in BOOLEAN :
       LET analyzed == /\ output.tool \notin SKIP_INJECTION_TOOLS
                       /\ up
                       /\ output.long
           trigger == IF analyzed THEN analyzeToolOutput(output)
                      ELSE NoTrigger("unavailable")
           wanted == trigger.shouldResearch
       IN /\ wanted => Len(tasks) < MaxHookTasks
          /\ PostResearch(wanted, sid, trigger.priority)
          /\ last' = HookCall("postToolUse", output, trigger,
                              wanted /\ QueuedCount < maxQueueSize)
  /\ UNCHANGED <<now, sessions, injections, lastInjectionTime, fkEnforced,
                 runs, conversation>>

\* The injection request of postToolUse is a getInjection of the session.
NextHooks ==
  \/ UserPromptSubmitHook
  \/ PostToolUseHook
  \/ GetInjection

SpecHooks == InitQueue /\ [][NextHooks]_vars

\* --------------------------------------------------- properties: hooks

\* C15: a hook enqueues a research task only for a trigger whose confidence
\* is at least the minimum confidence, for prompts and for tool outputs.
C15_EnqueuedAboveMinConfidence ==
  ( /\ last.op \in {"userPromptSubmit", "postToolUse"}
    /\ last.enqueued )
  => last.trigger.confidence >= minConfidenceToResearch

\* ------------------------------------------- coordinator: plan, evaluate

COMPLETION_THRESHOLD == 85

MaxSteps == 2
MaxFindings == 2
MaxFindingResults == 1

RawQuery == "q"

\* A generated text is given by the tagged fields a parser can find in it:
\* STRATEGY and RATIONALE, COMPLETE (absent: "none"), CONFIDENCE in
\* hundredths (absent: None), and the specialists of its well-formed step
\* lines, in order; SUMMARY (absent: "none"; present with nothing but white
\* space: "blank"; else "text") and the number of its KEY_FINDINGS bullets.
\* A CONFIDENCE of Dots is one the pattern [\d.]+ matches and parseFloat
\* cannot read ("."). The empty text has none of the fields. (REASONING and
\* PIVOT are left out: no text of the model carries them.)
Dots == 0 - 2

StepLists(n) ==
  UNION {[1..k -> {"web", "docs"}] : k \in 0..n}

PlanTexts ==
  [strategy : BOOLEAN, rationale : BOOLEAN, complete : {"none"},
   confidence : {None}, steps : StepLists(MaxSteps),
   summary : {"none"}, keyFindings : {0}]

EvaluationTexts ==
  [strategy : {FALSE}, rationale : {FALSE},
   complete : {"none", "true", "false"}, confidence : {None, 30, 90},
   steps : StepLists(1), summary : {"none"}, keyFindings : {0}]

SynthesisTexts ==
  [strategy : {FALSE}, rationale : {FALSE}, complete : {"none"},
   confidence : {None, 30, 150, Dots}, steps : {<<>>},
   summary : {"none", "blank", "text"}, keyFindings : {0, 1}]

EmptyText ==
  [strategy |-> FALSE, rationale |-> FALSE, complete |-> "none",
   confidence |-> None, steps |-> <<>>, summary |-> "none",
   keyFindings |-> 0]

\* What the generation does: it ends with a success result carrying a text,
\* it ends without a success result, or it throws.
Generations(texts) ==
  [kind : {"success"}, text : texts]
  \cup [kind : {"no-result", "throws"}, text : {EmptyText}]

\* queryClaude: the text of the success result; the empty string when the
\* messages end without one; an exception of the generator propagates.
queryClaude(generation) ==
  [threw |-> generation.kind = "throws",
   content |-> IF generation.kind = "success" THEN generation.text
               ELSE EmptyText]

Step(specialist, query, priority) ==
  [specialist |-> specialist, query |-> query, priority |-> priority]

\* The steps of the well-formed step lines of a text (their queries are the
\* generated ones).
ParsedSteps(text) ==
  [i \in DOMAIN text.steps |-> Step(text.steps[i], "generated", i)]

\* if (plan.nextSteps.length === 0) nextSteps = [web, originalQuery, 1]
EnsureOneStep(steps, originalQuery) ==
  IF steps = <<>> THEN <<Step("web", originalQuery, 1)>> ELSE steps

parsePlanResponse(response, originalQuery) ==
  [strategy |-> IF response.strategy THEN "generated"
                ELSE "Multi-source research",
   rationale |-> IF response.rationale THEN "generated"
                 ELSE "Default approach",
   nextSteps |-> EnsureOneStep(ParsedSteps(response), originalQuery)]

createFallbackPlan(query) ==
  [strategy |-> "Broad multi-source search",
   rationale |-> "Fallback plan using primary specialists",
   nextSteps |-> <<Step("docs", query, 1), Step("code", query, 2),
                   Step("web", query, 3)>>]

\* plan: the parsed plan, or the fallback plan when callClaude throws.
plan(query, generation) ==
  LET response == queryClaude(generation)
  IN IF response.threw THEN createFallbackPlan(query)
     ELSE parsePlanResponse(response.content, query)

\* Findings: each finding is the list of the relevances (hundredths; None
\* when a result has no relevance) of a specialist's results. 85 is the
\* completion threshold itself.
Relevances == {None, 85, 90}

FindingLists ==
  UNION {[1..k -> UNION {[1..m -> Relevances] : m \in 0..MaxFindingResults}] :
           k \in 0..MaxFindings}

\* A confidence is a fraction of hundredths.
Fraction(num, den) == [num |-> num, den |-> den]

SameValue(a, b) == a.num * b.den = b.num * a.den

RECURSIVE SumRelevance(_)
SumRelevance(results) ==
  IF results = <<>> THEN 0
  ELSE (IF Head(results) = None THEN 50 ELSE Head(results))
       + SumRelevance(Tail(results))

RECURSIVE TotalRelevance(_)
TotalRelevance(findings) ==
  IF findings = <<>> THEN 0
  ELSE SumRelevance(Head(findings)) + TotalRelevance(Tail(findings))

RECURSIVE CountResults(_)
CountResults(findings) ==
  IF findings = <<>> THEN 0
  ELSE Len(Head(findings)) + CountResults(Tail(findings))

\* calculateAverageRelevance: 0 without findings or without results, else
\* the mean of result.relevance ?? 0.5 over all results.
calculateAverageRelevance(findings) ==
  IF CountResults(findings) > 0
  THEN Fraction(TotalRelevance(findings), CountResults(findings))
  ELSE Fraction(0, 1)

parseEvaluationResponse(response) ==
  LET complete == response.complete = "true"
  IN [complete |-> complete,
      confidence |-> IF response.confidence = None THEN Fraction(50, 1)
                     ELSE Fraction(response.confidence, 1),
      nextSteps |-> IF complete THEN <<>> ELSE ParsedSteps(response),
      reasoning |-> "Unable to parse evaluation"]

\* The Evaluation of evaluate's catch block.
AssumeDone(findings) ==
  [complete |-> TRUE, confidence |-> calculateAverageRelevance(findings),
   nextSteps |-> <<>>, reasoning |-> "Evaluation failed"]

\* The quick check of evaluate with one finding enough.
EarlyExitOnOneFinding(findings) ==
  LET avgRelevance == calculateAverageRelevance(findings)
  IN /\ Len(findings) >= 1
     /\ avgRelevance.num > COMPLETION_THRESHOLD * avgRelevance.den

\* The quick check of evaluate:
\* findings.length > 0 && avgRelevance > COMPLETION_THRESHOLD
\*   && findings.length >= 2
EarlyExit(findings) ==
  LET avgRelevance == calculateAverageRelevance(findings)
  IN /\ Len(findings) > 0
     /\ avgRelevance.num > COMPLETION_THRESHOLD * avgRelevance.den
     /\ Len(findings) >= 2

\* evaluate: the early exit on more than one finding of high average
\* relevance, else the parsed evaluation, or the catch block when callClaude
\* throws.
evaluate(findings, generation) ==
  LET avgRelevance == calculateAverageRelevance(findings)
      response == queryClaude(generation)
  IN IF EarlyExit(findings)
     THEN [complete |-> TRUE, confidence |-> avgRelevance,
           nextSteps |-> <<>>, reasoning |-> "High confidence findings"]
     ELSE IF response.threw THEN AssumeDone(findings)
     ELSE parseEvaluationResponse(response.content)

\* Not a number: the fraction 0/0.
NaN == Fraction(0, 0)

\* Math.max(0, Math.min(1, parseFloat(text))) of a matched CONFIDENCE.
ClampConfidence(confidence) ==
  IF confidence = Dots THEN NaN
  ELSE Fraction(IF confidence > 100 THEN 100 ELSE confidence, 1)

\* parseSynthesisResponse: summary '' unless SUMMARY matches (trimmed),
\* confidence 0.5 unless CONFIDENCE matches.
parseSynthesisResponse(response, findings) ==
  [summary |-> IF response.summary = "text" THEN "generated" ELSE "",
   keyFindings |-> response.keyFindings,
   confidence |-> IF response.confidence = None THEN Fraction(50, 1)
                  ELSE ClampConfidence(response.confidence),
   totalFindings |-> Len(findings),
   totalSources |-> CountResults(findings)]

createEmptySynthesis(query) ==
  [summary |-> "Unable to find relevant information",
   keyFindings |-> 0, confidence |-> Fraction(0, 1),
   totalFindings |-> 0, totalSources |-> 0]

\* createFallbackSynthesis: built from the titles of the first five results.
createFallbackSynthesis(query, findings) ==
  LET topResults == Min(CountResults(findings), 5)
  IN [summary |-> IF topResults > 0 THEN "Research found results"
                  ELSE "Limited results found",
      keyFindings |-> topResults,
      confidence |-> calculateAverageRelevance(findings),
      totalFindings |-> Len(findings),
      totalSources |-> CountResults(findings)]

\* synthesize without its test for an empty finding set.
synthesizeUnguarded(query, findings, generation) ==
  LET response == queryClaude(generation)
  IN IF response.threw THEN createFallbackSynthesis(query, findings)
     ELSE parseSynthesisResponse(response.content, findings)

\* synthesize: the empty synthesis without findings, else the parsed
\* synthesis, or the fallback synthesis when callClaude throws.
synthesize(query, findings, generation) ==
  LET response == queryClaude(generation)
  IN IF Len(findings) = 0 THEN createEmptySynthesis(query)
     ELSE IF response.threw THEN createFallbackSynthesis(query, findings)
     ELSE parseSynthesisResponse(response.content, findings)

\* The calls of callClaude a call of the coordinator makes: plan makes one;
\* evaluate makes one unless it returns from the quick check before it;
\* synthesize makes one unless there are no findings.
GenerationCalls(input) ==
  IF input.op = "evaluate" /\ EarlyExit(input.findings) THEN 0
  ELSE IF input.op = "synthesize" /\ Len(input.findings) = 0 THEN 0
  ELSE 1

\* A call of the coordinator: its input, and, once it returned, its output
\* and the number of generation calls it made.
CoordinatorInputs ==
  [op : {"plan"}, query : {RawQuery}, findings : {<<>>},
   generation : Generations(PlanTexts)]
  \cup [op : {"evaluate"}, query : {RawQuery}, findings : FindingLists,
        generation : Generations(EvaluationTexts)]
  \cup [op : {"synthesize"}, query : {RawQuery}, findings : FindingLists,
        generation : Generations(SynthesisTexts)]

CoordinatorCall(input, returned, output) ==
  [op |-> input.op, input |-> input, returned |-> returned,
   output |-> output,
   calls |-> IF returned THEN GenerationCalls(input) ELSE 0]

InitCoordinator ==
  /\ now = StartMs
  /\ tasks = <<>>
  /\ sessions = [s \in {} |-> 0]
  /\ injections = <<>>
  /\ lastInjectionTime = [s \in SessionIds |-> None]
  /\ fkEnforced = TRUE
  /\ running = <<>>
  /\ retries = <<>>
  /\ runs = <<>>
  /\ conversation = NoConversation
  /\ last \in {CoordinatorCall(input, FALSE, <<>>) :
                 input \in CoordinatorInputs}

Plan ==
  /\ last.op = "plan"
  /\ ~last.returned
  /\ last' = CoordinatorCall(last.input, TRUE,
                             plan(last.input.query, last.input.generation))
  /\ UNCHANGED <<now, tasks, sessions, injections, lastInjectionTime,
                 fkEnforced, running, retries, runs, conversation>>

Evaluate ==
  /\ last.op = "evaluate"
  /\ ~last.returned
  /\ last' = CoordinatorCall(last.input, TRUE,
                             evaluate(last.input.findings,
                                      last.input.generation))
  /\ UNCHANGED <<now, tasks, sessions, injections, lastInjectionTime,
                 fkEnforced, running, retries, runs, conversation>>

Synthesize ==
  /\ last.op = "synthesize"
  /\ ~last.returned
  /\ last' = CoordinatorCall(last.input, TRUE,
                             synthesize(last.input.query,
                                        last.input.findings,
                                        last.input.generation))
  /\ UNCHANGED <<now, tasks, sessions, injections, lastInjectionTime,
                 fkEnforced, running, retries, runs, conversation>>

NextCoordinator ==
  \/ Plan
  \/ Evaluate
  \/ Synthesize

SpecCoordinator == InitCoordinator /\ [][NextCoordinator]_vars

\* --------------------------------------------- properties: coordinator

\* The generation of a call failed: it threw or ended without a success
\* result.
GenerationFailed(call) == call.input.generation.kind # "success"

\* The text of a call's generation has no step line that parses.
ParseFailed(call) ==
  call.input.generation.kind = "success"
  /\ call.input.generation.text.steps = <<>>

\* C19: plan returns a plan with at least one step, and after a parse failure
\* or a generation failure the plan is the default plan (the raw query to
\* the default specialists).
C19_PlanFallsBackToDefault ==
  (last.op = "plan" /\ last.returned) =>
    /\ Len(last.output.nextSteps) >= 1
    /\ (GenerationFailed(last) \/ ParseFailed(last)) =>
         last.output = createFallbackPlan(last.input.query)

\* C20: when the generation of evaluate fails, evaluate returns complete
\* with the average relevance as confidence and no further steps.
C20_FailedEvaluationCompletes ==
  (last.op = "evaluate" /\ last.returned /\ GenerationFailed(last)) =>
    /\ last.output.complete
    /\ SameValue(last.output.confidence,
                 calculateAverageRelevance(last.input.findings))
    /\ last.output.nextSteps = <<>>

\* C21: evaluate returns complete without a generation call when the average
\* relevance of all results exceeds the completion threshold and there are
\* at least two findings; in every other case it makes the generation call.
C21_EarlyExitSavesGeneration ==
  (last.op = "evaluate" /\ last.returned) =>
    LET findings == last.input.findings
        avg == calculateAverageRelevance(findings)
    IN IF avg.num > COMPLETION_THRESHOLD * avg.den /\ Len(findings) >= 2
       THEN last.calls = 0 /\ last.output.complete
       ELSE last.calls = 1

\* Two findings whose average relevance exceeds the threshold were evaluated.
C21_Witness ==
  /\ last.op = "evaluate" /\ last.returned
  /\ last.input.findings = <<(<<85>>), (<<90>>)>>
  /\ last.calls = 0
  /\ last.output.complete

\* C22: synthesize with an empty finding set returns the fixed "nothing
\* found" result with confidence 0 and makes no generation call.
C22_EmptyFindingsNothingFound ==
  (last.op = "synthesize" /\ last.returned /\ last.input.findings = <<>>) =>
    /\ last.output = createEmptySynthesis(last.input.query)
    /\ last.output.confidence = Fraction(0, 1)
    /\ last.calls = 0

\* synthesize returned for an empty finding set although the generator had
\* a full synthesis text ready.
C22_Witness ==
  /\ last.op = "synthesize" /\ last.returned
  /\ last.input.findings = <<>>
  /\ last.input.generation.kind = "success"
  /\ last.input.generation.text.summary = "text"
  /\ last.output.summary = "Unable to find relevant information"
\* The generated text of a call was read and lacks a field its phase asks
\* for: STRATEGY, RATIONALE or a step line for plan; COMPLETE or CONFIDENCE
\* for evaluate; SUMMARY or CONFIDENCE for synthesize.
MissingField(call) ==
  LET text == call.input.generation.text
  IN /\ call.returned
     /\ call.calls = 1
     /\ call.input.generation.kind = "success"
     /\ CASE call.op = "plan" ->
               ~text.strategy \/ ~text.rationale \/ text.steps = <<>>
          [] call.op = "evaluate" ->
               text.complete = "none" \/ text.confidence = None
          [] call.op = "synthesize" ->
               text.summary = "none" \/ text.confidence = None

\* C23: when the generated text of plan, evaluate or synthesize lacks a
\* required field, the call returns the fallback of its phase: the default
\* plan, complete with the average relevance, or the synthesis built from
\* the raw results.
C23_MissingFieldGivesFallback ==
  MissingField(last) =>
    CASE last.op = "plan" ->
           last.output = createFallbackPlan(last.input.query)
      [] last.op = "evaluate" ->
           /\ last.output.complete
           /\ SameValue(last.output.confidence,
                        calculateAverageRelevance(last.input.findings))
           /\ last.output.nextSteps = <<>>
      [] last.op = "synthesize" ->
           last.output = createFallbackSynthesis(last.input.query,
                                                 last.input.findings)

\* C24: for every non-empty finding set and every behaviour of the
\* generator, synthesize returns a non-empty summary and a confidence that
\* is a number from 0 to 1.
C24_SynthesisSummaryAndConfidence ==
  (last.op = "synthesize" /\ last.returned /\ last.input.findings # <<>>) =>
    /\ last.output.summary # ""
    /\ last.output.confidence # NaN
    /\ 0 <= last.output.confidence.num
    /\ last.output.confidence.num <= 100 * last.output.confidence.den
\* ------------------------------------------------------------- dispatch
\*
\* The dispatch phase sends each step of a plan to its specialist; the
\* specialists run concurrently and return in any order. The search
\* functions of the specialists are modelled from their code; the
\* specialist's execute (specialists/base.ts) and the loop that dispatches
\* (crew/research-executor.ts) are modelled from the specification.

MaxDispatchSteps == 2
MaxOrganic == 2
maxResults == 2

\* What the downstream service of a search does: the request is rejected
\* (network failure or the 10 s timeout), it answers with an error status,
\* with a body that is not JSON, or with organic results and possibly an
\* answer box.
Downstreams ==
  [kind : {"rejects", "http-error", "bad-json"}, answerBox : {FALSE},
   organic : {0}]
  \cup [kind : {"ok"}, answerBox : BOOLEAN, organic : 0..MaxOrganic]

\* The relevances of the organic results at positions 1..n.
OrganicResults(n) == [i \in 1..n |-> 100 - 5 * i]

\* searchSerper: throws when fetchWithTimeout rejects or the status is not
\* ok; no results when the body does not parse; else the answer box
\* (relevance 1.0) and the organic results, cut to maxResults.
searchSerper(downstream) ==
  IF downstream.kind \in {"rejects", "http-error"}
  THEN [threw |-> TRUE, results |-> <<>>]
  ELSE IF downstream.kind = "bad-json"
  THEN [threw |-> FALSE, results |-> <<>>]
  ELSE LET all == (IF downstream.answerBox THEN <<100>> ELSE <<>>)
                  \o OrganicResults(downstream.organic)
       IN [threw |-> FALSE,
           results |-> SubSeq(all, 1, Min(Len(all), maxResults))]

\* execute of a specialist that lets the exception of its search escape.
executeThrowing(downstream) == searchSerper(downstream)

\* execute of a specialist: the results of its search, and an empty list
\* when the search throws.
execute(downstream) ==
  LET searched == searchSerper(downstream)
  IN IF searched.threw THEN [threw |-> FALSE, results |-> <<>>]
     ELSE searched

\* A dispatch: the downstream behaviour met by the specialist of each step,
\* the steps still running, the findings returned so far, and the phase of
\* the loop.
Dispatches ==
  UNION {[1..n -> Downstreams] : n \in 1..MaxDispatchSteps}

DispatchCall(steps, pending, findings, phase) ==
  [op |-> "dispatch", steps |-> steps, pending |-> pending,
   findings |-> findings, phase |-> phase]

InitDispatch ==
  /\ now = StartMs
  /\ tasks = <<>>
  /\ sessions = [s \in {} |-> 0]
  /\ injections = <<>>
  /\ lastInjectionTime = [s \in SessionIds |-> None]
  /\ fkEnforced = TRUE
  /\ running = <<>>
  /\ retries = <<>>
  /\ runs = <<>>
  /\ conversation = NoConversation
  /\ last \in {DispatchCall(steps, DOMAIN steps,
                            [i \in DOMAIN steps |-> <<>>], "dispatch") :
                 steps \in Dispatches}

\* One specialist returns: its finding is kept; an exception escaping it
\* aborts the loop.
SpecialistReturns ==
  /\ last.op = "dispatch"
  /\ last.phase = "dispatch"
  /\ \E i \in last.pending :
       LET returned == execute(last.steps[i])
       IN last' = DispatchCall(last.steps, last.pending \ {i},
                               [last.findings EXCEPT ![i] = returned.results],
                               IF returned.threw THEN "aborted"
                               ELSE "dispatch")
  /\ UNCHANGED <<now, tasks, sessions, injections, lastInjectionTime,
                 fkEnforced, running, retries, runs, conversation>>

\* All specialists have returned: the loop goes on to evaluate the findings.
DispatchCollect ==
  /\ last.op = "dispatch"
  /\ last.phase = "dispatch"
  /\ last.pending = {}
  /\ last' = DispatchCall(last.steps, {}, last.findings, "evaluate")
  /\ UNCHANGED <<now, tasks, sessions, injections, lastInjectionTime,
                 fkEnforced, running, retries, runs, conversation>>

NextDispatch ==
  \/ SpecialistReturns
  \/ DispatchCollect

SpecDispatch == InitDispatch /\ [][NextDispatch]_vars

\* --------------------------------------------------- properties: dispatch

\* C25: a specialist whose downstream call fails returns an empty list
\* instead of throwing: the loop is never aborted, and when the dispatch is
\* collected the failed specialists have contributed no results while every
\* sibling's results are all there.
C25_FailedSpecialistContributesNothing ==
  (last.op = "dispatch") =>
    /\ last.phase # "aborted"
    /\ last.phase = "evaluate" =>
         \A i \in DOMAIN last.steps :
           last.findings[i] =
             (IF searchSerper(last.steps[i]).threw THEN <<>>
              ELSE searchSerper(last.steps[i]).results)

\* A dispatch of two steps was collected: the first specialist's search
\* failed, the second one's results are there.
C25_Witness ==
  /\ last.op = "dispatch"
  /\ last.phase = "evaluate"
  /\ Len(last.steps) = 2
  /\ last.steps[1].kind = "http-error"
  /\ last.findings[1] = <<>>
  /\ last.steps[2].kind = "ok"
  /\ Len(last.findings[2]) = 2
\* ------------------------------------------------------- injection type
\*
\* determineInjectionType applied to every pair of a best memory score and a
\* best research score (hundredths; None when there is no such candidate)
\* on a grid around the thresholds.

ScoreGrid ==
  {None, 0, 45, 49, 50, 55, 59, 60, 65, 69, 70, 75, 79, 80, 85, 90, 100}

InjectionTypeCall(memory, research, returned, type) ==
  [op |-> "determineInjectionType", memory |-> memory,
   research |-> research, returned |-> returned, type |-> type]

InitInjectionType ==
  /\ now = StartMs
  /\ tasks = <<>>
  /\ sessions = [s \in {} |-> 0]
  /\ injections = <<>>
  /\ lastInjectionTime = [s \in SessionIds |-> None]
  /\ fkEnforced = TRUE
  /\ running = <<>>
  /\ retries = <<>>
  /\ runs = <<>>
  /\ conversation = NoConversation
  /\ last \in {InjectionTypeCall(m, r, FALSE, "none") :
                 m \in ScoreGrid, r \in ScoreGrid}

DetermineInjectionType ==
  /\ last.op = "determineInjectionType"
  /\ ~last.returned
  /\ last' = InjectionTypeCall(last.memory, last.research, TRUE,
                               determineInjectionType(last.memory,
                                                      last.research))
  /\ UNCHANGED <<now, tasks, sessions, injections, lastInjectionTime,
                 fkEnforced, running, retries, runs, conversation>>

NextInjectionType == DetermineInjectionType

SpecInjectionType == InitInjectionType /\ [][NextInjectionType]_vars

\* C26: with m the best memory score and r the best research score (0 when
\* there is no candidate), the type is memory-only if m >= memoryOnlyThreshold
\* and m > r; else combined if both reach combinedThreshold; else
\* research-only if r >= researchOnlyThreshold; else memory-only if m reaches
\* the minimum relevance; else none. In particular m = 0.9 and r = 0.5 give
\* memory-only.
C26_InjectionTypePrecedence ==
  (last.op = "determineInjectionType" /\ last.returned) =>
    LET m == IF last.memory = None THEN 0 ELSE last.memory
        r == IF last.research = None THEN 0 ELSE last.research
        strongMemory == m >= memoryOnlyThreshold /\ m > r
        both == m >= combinedThreshold /\ r >= combinedThreshold
        strongResearch == r >= researchOnlyThreshold
        someMemory == m >= minRelevanceScore
    IN /\ strongMemory => last.type = "memory-only"
       /\ (~strongMemory /\ both) => last.type = "combined"
       /\ (~strongMemory /\ ~both /\ strongResearch) =>
            last.type = "research-only"
       /\ (~strongMemory /\ ~both /\ ~strongResearch /\ someMemory) =>
            last.type = "memory-only"
       /\ (~strongMemory /\ ~both /\ ~strongResearch /\ ~someMemory) =>
            last.type = "none"
       /\ (last.memory = 90 /\ last.research = 50) =>
            last.type = "memory-only"

\* A strong memory candidate beside a research candidate above the combined
\* threshold was typed memory-only.
C26_Witness ==
  /\ last.op = "determineInjectionType" /\ last.returned
  /\ last.memory = 90 /\ last.research = 65
  /\ last.type = "memory-only"
\* ------------------------------------------------------ knowledge scorer
\*
\* searchUnifiedKnowledge over the observations an FTS query matches. A
\* factor is a number of millionths, a weight a number of hundredths, and a
\* final score a number of hundred-millionths.

Unit == 1000000
ScoreUnit == 100 * Unit

MaxRows == 2
searchLimit == 10

\* Ages in days. Math.exp(-ageDays / 10) is 0 in double precision from
\* about 7,460 days on.
Ages == {0, 7, 8000, 9000}

\* A recency that grows with age: 1 + ageDays / 10000, in millionths.
calculateRecencyScoreGrowing(ageDays) == 1000000 + 100 * ageDays

\* calculateRecencyScore: Math.exp(-ageDays / 10), in millionths.
calculateRecencyScore(ageDays) ==
  CASE ageDays = 0 -> 1000000
    [] ageDays = 7 -> 496585
    [] ageDays = 8000 -> 0
    [] ageDays = 9000 -> 0

\* calculateTypeMatchScore: the base score of the type, raised by 0.2 for a
\* bugfix when the context mentions an error.
calculateTypeMatchScore(type, context) ==
  LET baseScore == CASE type = "bugfix" -> 800000
                     [] type = "change" -> 400000
                     [] OTHER -> 500000
  IN IF context = "error" /\ type = "bugfix"
     THEN Min(Unit, baseScore + 200000)
     ELSE baseScore

DEFAULT_RELEVANCE_WEIGHTS ==
  [textSimilarity |-> 35, recency |-> 15, projectMatch |-> 15,
   typeMatch |-> 15, confidence |-> 20]

\* An override names some of the weights.
WeightOverrides ==
  {[f \in {} |-> 0], [f \in {"textSimilarity"} |-> 90]}

\* { ...DEFAULT_RELEVANCE_WEIGHTS, ...weights }
MergeWeights(weights) ==
  [f \in DOMAIN DEFAULT_RELEVANCE_WEIGHTS |->
     IF f \in DOMAIN weights THEN weights[f]
     ELSE DEFAULT_RELEVANCE_WEIGHTS[f]]

SumWeights(weights) ==
  weights.textSimilarity + weights.recency + weights.projectMatch
  + weights.typeMatch + weights.confidence

\* The project-match factor of calculateRelevance.
ProjectFactor(projectMatch) == IF projectMatch THEN Unit ELSE Unit \div 2

\* The weighted sum of the five factors.
WeightedSum(relevance, weights) ==
  relevance.textSimilarity * weights.textSimilarity
  + relevance.recency * weights.recency
  + ProjectFactor(relevance.projectMatch) * weights.projectMatch
  + relevance.typeMatch * weights.typeMatch
  + relevance.confidence * weights.confidence

\* calculateRelevance: Math.min(1, Math.max(0, score))
calculateRelevance(relevance, weights) ==
  LET score == WeightedSum(relevance, weights)
  IN IF score > ScoreUnit THEN ScoreUnit
     ELSE IF score < 0 THEN 0 ELSE score

\* The observations the FTS query matches, in rank order.
Rows ==
  [project : {"p1", "p2"}, type : {"bugfix", "change"}, age : Ages,
   confidence : {None, 90}]

RowLists == UNION {[1..n -> Rows] : n \in 0..MaxRows}

SearchOptions ==
  [project : {"", "p1"}, context : {"", "error"}, weights : WeightOverrides]

\* The rows the query selects: those of the project when one is given
\* (AND o.project = ?), at most limit * 2 of them.
RECURSIVE SelectRows(_, _)
SelectRows(rows, project) ==
  IF rows = <<>> THEN <<>>
  ELSE IF project # "" /\ Head(rows).project # project
  THEN SelectRows(Tail(rows), project)
  ELSE <<Head(rows)>> \o SelectRows(Tail(rows), project)

\* The candidate of a row, scored.
ScoredCandidate(row, options) ==
  LET relevance ==
        [textSimilarity |-> 700000,
         recency |-> calculateRecencyScore(row.age),
         projectMatch |-> IF options.project # ""
                          THEN row.project = options.project ELSE TRUE,
         typeMatch |-> calculateTypeMatchScore(row.type, options.context),
         confidence |-> IF row.confidence = None THEN 500000
                        ELSE row.confidence * 10000]
  IN [row |-> row, relevance |-> relevance,
      finalScore |-> calculateRelevance(relevance,
                                        MergeWeights(options.weights))]

\* candidates.sort((a, b) => b.finalScore - a.finalScore): stable, highest
\* score first.
RECURSIVE InsertByScore(_, _)
InsertByScore(candidate, sorted) ==
  IF sorted = <<>> THEN <<candidate>>
  ELSE IF Head(sorted).finalScore >= candidate.finalScore
  THEN <<Head(sorted)>> \o InsertByScore(candidate, Tail(sorted))
  ELSE <<candidate>> \o sorted

RECURSIVE SortByScore(_)
SortByScore(candidates) ==
  IF candidates = <<>> THEN <<>>
  ELSE InsertByScore(candidates[Len(candidates)],
                     SortByScore(SubSeq(candidates, 1, Len(candidates) - 1)))

searchUnifiedKnowledge(rows, options) ==
  LET selected == SelectRows(rows, options.project)
      fetched == SubSeq(selected, 1, Min(Len(selected), searchLimit * 2))
      candidates == [i \in DOMAIN fetched |->
                       ScoredCandidate(fetched[i], options)]
      sorted == SortByScore(candidates)
  IN SubSeq(sorted, 1, Min(Len(sorted), searchLimit))

SearchCall(rows, options, returned, candidates) ==
  [op |-> "searchUnifiedKnowledge", rows |-> rows, options |-> options,
   returned |-> returned, candidates |-> candidates]

InitScorer ==
  /\ now = StartMs
  /\ tasks = <<>>
  /\ sessions = [s \in {} |-> 0]
  /\ injections = <<>>
  /\ lastInjectionTime = [s \in SessionIds |-> None]
  /\ fkEnforced = TRUE
  /\ running = <<>>
  /\ retries = <<>>
  /\ runs = <<>>
  /\ conversation = NoConversation
  /\ last \in {SearchCall(rows, options, FALSE, <<>>) :
                 rows \in RowLists, options \in SearchOptions}

SearchUnifiedKnowledge ==
  /\ last.op = "searchUnifiedKnowledge"
  /\ ~last.returned
  /\ last' = SearchCall(last.rows, last.options, TRUE,
                        searchUnifiedKnowledge(last.rows, last.options))
  /\ UNCHANGED <<now, tasks, sessions, injections, lastInjectionTime,
                 fkEnforced, running, retries, runs, conversation>>

NextScorer == SearchUnifiedKnowledge

SpecScorer == InitScorer /\ [][NextScorer]_vars

\* ---------------------------------------------------- properties: scorer

\* C27: the five weights in effect, defaults or override, sum to 1, so the
\* final score of every candidate is the weighted sum of its five factors
\* and lies between 0 and 1.
C27_WeightsSumToOne ==
  (last.op = "searchUnifiedKnowledge" /\ last.returned) =>
    LET weights == MergeWeights(last.options.weights)
    IN /\ SumWeights(weights) = 100
       /\ \A i \in DOMAIN last.candidates :
            LET candidate == last.candidates[i]
            IN /\ candidate.finalScore
                    = WeightedSum(candidate.relevance, weights)
               /\ 0 <= candidate.finalScore
               /\ candidate.finalScore <= ScoreUnit
\* Candidate older and candidate newer of a search are the same observation
\* but for their age.
SameButOlder(older, newer) ==
  /\ older.row.age > newer.row.age
  /\ [older.row EXCEPT !.age = newer.row.age] = newer.row

C29_CrossProjectStaysEligible ==
  (last.op = "searchUnifiedKnowledge" /\ last.returned) =>
    /\ \A i \in DOMAIN last.candidates :
         ProjectFactor(last.candidates[i].relevance.projectMatch)
           = (IF last.options.project = ""
                 \/ last.candidates[i].row.project = last.options.project
              THEN Unit ELSE Unit \div 2)
    /\ \A k \in DOMAIN last.rows :
         \E i \in DOMAIN last.candidates :
           last.candidates[i].row = last.rows[k]
\* ----------------------------------------------------------- formatters
\*
\* The rendering templates, computed on lengths: a text is given by its
\* number of characters, a list of parts by the lengths of its parts.

memoryOnlyTokens == 80
combinedTokens == 150

MaxFiles == 3

\* s.slice(0, end).length for a text of len characters: a negative end
\* counts from the end of the text.
SliceLen(len, end) ==
  IF end >= 0 THEN Min(len, end)
  ELSE IF len + end > 0 THEN len + end ELSE 0

\* parts.join('\n').length
RECURSIVE SumParts(_)
SumParts(parts) ==
  IF parts = <<>> THEN 0 ELSE Head(parts) + SumParts(Tail(parts))

JoinLen(parts) ==
  IF parts = <<>> THEN 0 ELSE SumParts(parts) + (Len(parts) - 1)

\* A summary cut to remaining characters when it is longer:
\* summary.slice(0, remaining - 3) + '...'
Truncated(len, remaining) ==
  IF len > remaining THEN SliceLen(len, remaining - 3) + 3 ELSE len

\* formatMemoryInjection: the header, the line naming type, project and
\* date, the summary cut to what is left less 50 characters, and the first
\* three files.
formatMemoryInjection(candidate, options) ==
  LET maxChars == memoryOnlyTokens * 4
      head == <<37, 0,
                29 + candidate.typeLen + 4 + candidate.projectLen + 2
                + candidate.dateLen + 2>>
      remainingChars == maxChars - JoinLen(head) - 50
      summary == Truncated(candidate.summaryLen, remainingChars)
      uniqueFiles == Min(candidate.files, 3)
      files == IF options.includeFiles /\ candidate.files > 0
               THEN <<7 + uniqueFiles * candidate.fileLen
                      + 2 * (uniqueFiles - 1)>>
               ELSE <<>>
      content == JoinLen(head \o <<summary>> \o files)
  IN [type |-> "memory-only", contentLen |-> content,
      tokensEstimate |-> CeilDiv(content, 4), maxTokens |-> memoryOnlyTokens]

\* formatCombinedInjection: 40% of the characters for the memory summary
\* less 80, 60% for the research summary less 100.
formatCombinedInjection(memory, research, options) ==
  LET maxChars == combinedTokens * 4
      memoryChars == (maxChars * 4) \div 10
      researchChars == (maxChars * 6) \div 10
      memLine == (IF memory.bugfix THEN 19 ELSE 25)
                 + Min(memory.titleLen, 30) + 4 + memory.projectLen + 2
                 + memory.dateLen + 2
      memSummary == IF memory.summaryLen > memoryChars - 80
                    THEN SliceLen(memory.summaryLen, memoryChars - 83) + 3
                    ELSE memory.summaryLen
      resTitle == IF research.titleLen > 40 THEN 40 ELSE research.titleLen
      resSummary == IF research.summaryLen > researchChars - 100
                    THEN SliceLen(research.summaryLen, researchChars - 103) + 3
                    ELSE research.summaryLen
      followup == 13 + research.percentLen
                  + (IF options.includeFollowup
                     THEN 21 + research.idLen + 1 ELSE 2)
      content == JoinLen(<<37, 0, memLine, memSummary, 0,
                           37 + resTitle + 1, resSummary, followup>>)
  IN [type |-> "combined", contentLen |-> content,
      tokensEstimate |-> CeilDiv(content, 4), maxTokens |-> combinedTokens]

\* formatTaskInjection of a task with a result: the opening tag with the
\* query, the summary cut to maxChars - 100, the first source, the pivot,
\* the hint on further sources, the closing tag.
formatTaskInjection(task) ==
  LET maxChars == maxTokensPerInjection * 4
      summary == IF task.summaryLen > maxChars - 100
                 THEN SliceLen(task.summaryLen, maxChars - 103) + 3
                 ELSE task.summaryLen
      source == IF task.sources > 0
                THEN <<8 + task.titleLen + 2 + task.urlLen + 1>> ELSE <<>>
      pivot == IF task.pivot
               THEN <<0, 38, task.alternativeLen, 9 + task.reasonLen + 1>>
               ELSE <<>>
      digits == IF task.sources >= 10 THEN 2 ELSE 1
      followup == IF task.sources > 1
                     \/ (task.fullLen > 0 /\ task.fullLen > summary * 2)
                  THEN <<0, digits + 53>> ELSE <<>>
      content == JoinLen(<<25 + task.queryLen + 2, summary>> \o source
                         \o pivot \o followup \o <<19>>)
  IN [type |-> "task", contentLen |-> content,
      tokensEstimate |-> CeilDiv(content, 4),
      maxTokens |-> maxTokensPerInjection]

\* The candidates and tasks rendered: short and long texts.
MemoryCandidates ==
  [typeLen : {6}, bugfix : BOOLEAN, titleLen : {10, 100},
   projectLen : {5, 300}, dateLen : {5, 10}, summaryLen : {0, 100, 1000},
   files : 0..MaxFiles, fileLen : {10, 22}]

ResearchCandidates ==
  [titleLen : {10, 100}, summaryLen : {0, 100, 1000}, percentLen : {2},
   idLen : {2}]

RenderedTasks ==
  [queryLen : {21, 500}, summaryLen : {0, 100, 1000}, fullLen : {0, 2000},
   sources : {0, 2}, titleLen : {20}, urlLen : {30}, pivot : BOOLEAN,
   alternativeLen : {40}, reasonLen : {60}]

FormatInputs ==
  [template : {"memory-only"}, memory : MemoryCandidates,
   options : [includeFiles : BOOLEAN]]
  \cup [template : {"combined"},
        memory : {m \in MemoryCandidates : m.files = 0 /\ m.fileLen = 10},
        research : ResearchCandidates,
        options : [includeFollowup : BOOLEAN]]
  \cup [template : {"task"}, task : RenderedTasks]

NoInjection ==
  [type |-> "none", contentLen |-> 0, tokensEstimate |-> 0, maxTokens |-> 0]

FormatCall(input, returned, injection) ==
  [op |-> "format", input |-> input, returned |-> returned,
   injection |-> injection]

InitFormatters ==
  /\ now = StartMs
  /\ tasks = <<>>
  /\ sessions = [s \in {} |-> 0]
  /\ injections = <<>>
  /\ lastInjectionTime = [s \in SessionIds |-> None]
  /\ fkEnforced = TRUE
  /\ running = <<>>
  /\ retries = <<>>
  /\ runs = <<>>
  /\ conversation = NoConversation
  /\ last \in {FormatCall(input, FALSE, NoInjection) :
                 input \in FormatInputs}

FormatMemoryInjection ==
  /\ last.op = "format"
  /\ ~last.returned
  /\ last.input.template = "memory-only"
  /\ last' = FormatCall(last.input, TRUE,
                        formatMemoryInjection(last.input.memory,
                                              last.input.options))
  /\ UNCHANGED <<now, tasks, sessions, injections, lastInjectionTime,
                 fkEnforced, running, retries, runs, conversation>>

FormatCombinedInjection ==
  /\ last.op = "format"
  /\ ~last.returned
  /\ last.input.template = "combined"
  /\ last' = FormatCall(last.input, TRUE,
                        formatCombinedInjection(last.input.memory,
                                                last.input.research,
                                                last.input.options))
  /\ UNCHANGED <<now, tasks, sessions, injections, lastInjectionTime,
                 fkEnforced, running, retries, runs, conversation>>

FormatTaskInjection ==
  /\ last.op = "format"
  /\ ~last.returned
  /\ last.input.template = "task"
  /\ last' = FormatCall(last.input, TRUE, formatTaskInjection(last.input.task))
  /\ UNCHANGED <<now, tasks, sessions, injections, lastInjectionTime,
                 fkEnforced, running, retries, runs, conversation>>

NextFormatters ==
  \/ FormatMemoryInjection
  \/ FormatCombinedInjection
  \/ FormatTaskInjection

SpecFormatters == InitFormatters /\ [][NextFormatters]_vars

\* C30: whatever the lengths of title, summary, project name, file list or
\* query, the token estimate of a rendered injection (characters divided by
\* 4, rounded up) never exceeds the token ceiling of its type.
C30_RenderedWithinCeiling ==
  (last.op = "format" /\ last.returned) =>
    /\ last.injection.tokensEstimate = CeilDiv(last.injection.contentLen, 4)
    /\ last.injection.tokensEstimate <= last.injection.maxTokens
\* ----------------------------------------------------------- AI provider
\*
\* queryAI over the configured provider. The Gemini request is rejected by
\* the API, answers without a text part, or answers with text; the Claude
\* generation is one of Generations.

GeminiAnswers == {"http-error", "no-text", "text"}

\* queryGemini: throws on an error status and on a response without text.
queryGemini(answer) ==
  [threw |-> answer # "text",
   content |-> IF answer = "text" THEN "generated" ELSE ""]

\* queryAI: Gemini when it is selected and has a key, Claude when Gemini is
\* not selected, has no key, or throws. The content is "" for an empty
\* string, "generated" otherwise.
queryAI(config, gemini, generation) ==
  LET viaGemini == queryGemini(gemini)
      viaClaude == queryClaude(generation)
  IN IF config.provider = "gemini" /\ config.geminiKey /\ ~viaGemini.threw
     THEN [threw |-> FALSE, content |-> viaGemini.content,
           provider |-> "gemini"]
     ELSE [threw |-> viaClaude.threw,
           content |-> IF viaClaude.threw \/ viaClaude.content = EmptyText
                       THEN "" ELSE "generated",
           provider |-> "claude"]

InitProvider ==
  /\ now = StartMs
  /\ tasks = <<>>
  /\ sessions = [s \in {} |-> 0]
  /\ injections = <<>>
  /\ lastInjectionTime = [s \in SessionIds |-> None]
  /\ fkEnforced = TRUE
  /\ running = <<>>
  /\ retries = <<>>
  /\ runs = <<>>
  /\ conversation = NoConversation
  /\ last \in [op : {"queryAI"},
               config : [provider : {"claude", "gemini"},
                         geminiKey : BOOLEAN],
               gemini : GeminiAnswers,
               generation : Generations(SynthesisTexts \ {EmptyText}),
               returned : {FALSE},
               result : {[threw |-> FALSE, content |-> "",
                          provider |-> "claude"]}]

QueryAI ==
  /\ last.op = "queryAI"
  /\ ~last.returned
  /\ last' = [last EXCEPT !.returned = TRUE,
                          !.result = queryAI(last.config, last.gemini,
                                             last.generation)]
  /\ UNCHANGED <<now, tasks, sessions, injections, lastInjectionTime,
                 fkEnforced, running, retries, runs, conversation>>

NextProvider == QueryAI

SpecProvider == InitProvider /\ [][NextProvider]_vars

\* C31: every failure of the generator reaches the caller as an error: when
\* the provider that answered produced no successful result, queryAI throws
\* instead of returning empty text.
C31_FailureIsAnError ==
  (last.op = "queryAI" /\ last.returned) =>
    /\ (last.result.provider = "claude"
         /\ last.generation.kind # "success") => last.result.threw
    /\ ~last.result.threw => last.result.content # ""

\* ------------------------------------------------------- hook outcomes

\* What the research service does with one request of a hook.
ServiceStates == {"up", "down", "timeout", "error-status", "malformed"}

\* tool_input as the hook receives it: an object, a string holding JSON, or
\* a string that is not JSON.
ToolInputs == {"object", "json-string", "plain-string"}

HookTools == {"Read", "Write", "Task"}

INJECTABLE_TOOLS == {"Read"}

\* fetch with .json() on the reply: the request rejects when the service
\* is down or the timeout signal fires, and reading the body throws on a
\* malformed reply.
fetch(service) ==
  [rejected |-> service \in {"down", "timeout"},
   ok |-> service \in {"up", "malformed"},
   jsonThrows |-> service = "malformed"]

Continue(context) == [outcome |-> "continue", context |-> context]

Rejected == [outcome |-> "rejected", context |-> FALSE]

\* handlePostToolUse: tool_input is parsed before the try block; the
\* request, the status test and the reading of the reply are inside it.
handlePostToolUse(input, service) ==
  IF input.toolInput = "plain-string"
  THEN Rejected
  ELSE LET streamResponse == fetch(service)
       IN IF streamResponse.rejected \/ ~streamResponse.ok
             \/ streamResponse.jsonThrows
          THEN Continue(FALSE)
          ELSE Continue(input.injection)

\* postToolUse: everything is inside one try block whose catch continues.
postToolUse(input, service) ==
  LET healthCheck == fetch(service)
      injectionResponse == fetch(service)
  IN IF input.tool \in SKIP_INJECTION_TOOLS THEN Continue(FALSE)
     ELSE IF healthCheck.rejected \/ ~healthCheck.ok THEN Continue(FALSE)
     ELSE IF input.long /\ fetch(service).jsonThrows THEN Continue(FALSE)
     ELSE IF input.tool \notin INJECTABLE_TOOLS THEN Continue(FALSE)
     ELSE IF injectionResponse.rejected \/ ~injectionResponse.ok
     THEN Continue(FALSE)
     ELSE IF injectionResponse.jsonThrows THEN Continue(FALSE)
     ELSE Continue(input.injection)

\* userPromptSubmit: one try block; every exit continues without context.
userPromptSubmit(input, service) == Continue(FALSE)

\* handleUserPromptSubmit: the request is inside a try block with an empty
\* catch, and the reply is not read.
handleUserPromptSubmit(input, service) == Continue(FALSE)

\* sessionStart: the request carries its own catch inside a try block.
sessionStart(input, service) == Continue(FALSE)

HookHandlers ==
  {"handleUserPromptSubmit", "userPromptSubmit", "handlePostToolUse",
   "postToolUse", "sessionStart"}

RunHook(handler, input, service) ==
  CASE handler = "handleUserPromptSubmit"
         -> handleUserPromptSubmit(input, service)
    [] handler = "userPromptSubmit" -> userPromptSubmit(input, service)
    [] handler = "handlePostToolUse" -> handlePostToolUse(input, service)
    [] handler = "postToolUse" -> postToolUse(input, service)
    [] OTHER -> sessionStart(input, service)

HookInputs ==
  [toolInput : ToolInputs, tool : HookTools, long : BOOLEAN,
   injection : BOOLEAN]

InitHookOutcomes ==
  /\ now = StartMs
  /\ tasks = <<>>
  /\ sessions = [s \in {} |-> 0]
  /\ injections = <<>>
  /\ lastInjectionTime = [s \in SessionIds |-> None]
  /\ fkEnforced = TRUE
  /\ running = <<>>
  /\ retries = <<>>
  /\ runs = <<>>
  /\ conversation = NoConversation
  /\ last \in [op : {"hook"}, handler : HookHandlers, input : HookInputs,
               service : ServiceStates, returned : {FALSE},
               result : {Continue(FALSE)}]

HookRuns ==
  /\ last.op = "hook"
  /\ ~last.returned
  /\ last' = [last EXCEPT
                !.returned = TRUE,
                !.result = RunHook(last.handler, last.input, last.service)]
  /\ UNCHANGED <<now, tasks, sessions, injections, lastInjectionTime,
                 fkEnforced, running, retries, runs, conversation>>

NextHookOutcomes == HookRuns

SpecHookOutcomes == InitHookOutcomes /\ [][NextHookOutcomes]_vars

\* C32: every hook handler resolves with a continue response for every
\* input and every state of the research service; none rejects.
C32_HooksAlwaysContinue ==
  (last.op = "hook" /\ last.returned) => last.result.outcome = "continue"

\* ------------------------------------- conversation analyzer: one session

\* The weights of analyzeUserPrompt's question patterns, in hundredths.
analyzerQuestionPatterns == <<75, 85, 70, 90, 85>>

\* A prompt as the analyzer sees it: the first question pattern that
\* matches it (0: none), whether a technology pattern matches, whether an
\* error is mentioned with a context that can be extracted, and whether it
\* contains a question mark.
AnalyzerPrompts ==
  [question : 0..Len(analyzerQuestionPatterns), tech : BOOLEAN,
   errorContext : BOOLEAN, qmark : BOOLEAN]

\* analyzeUserPrompt: question patterns, technology patterns, error
\* mentions, then a bare question mark.
analyzeUserPrompt(prompt) ==
  IF prompt.question # 0
  THEN LET weight == analyzerQuestionPatterns[prompt.question]
       IN Trigger(weight >= minConfidenceToResearch, RoundTenths(weight),
                  weight, prompt.question, "pattern", <<>>)
  ELSE IF prompt.tech THEN Trigger(TRUE, 6, 65, 0, "tech", <<>>)
  ELSE IF prompt.errorContext THEN Trigger(TRUE, 7, 75, 0, "error", <<>>)
  ELSE IF prompt.qmark THEN Trigger(TRUE, 5, 55, 0, "question-mark", <<>>)
  ELSE NoTrigger("none")

\* A faulty processUserPrompt that analyzes the prompt without looking at
\* the time of the last research.
processUserPromptNoCooldown(state, prompt) == analyzeUserPrompt(prompt)

\* processUserPrompt: analyzeForResearch checks the cooldown and analyzes
\* the prompt; lastResearchTime and the errors are left as they are.
processUserPrompt(state, prompt) ==
  IF InResearchCooldown(state) THEN NoTrigger("cooldown")
  ELSE analyzeUserPrompt(prompt)

MaxAnalyzerTicks == 3

\* The clock advances by half a cooldown at a time.
TickAnalyzer == TickBy(researchCooldownMs \div 2, MaxAnalyzerTicks)

ProcessUserPrompt ==
  /\ \E prompt \in AnalyzerPrompts :
       last' = TriggerCall("processUserPrompt", prompt,
                           processUserPrompt(conversation, prompt))
  /\ UNCHANGED <<now, tasks, sessions, injections, lastInjectionTime,
                 fkEnforced, running, retries, runs, conversation>>

NextAnalyzer ==
  \/ TickAnalyzer
  \/ ProcessUserPrompt
  \/ ProcessToolUse
  \/ MarkResearchPerformed

SpecAnalyzer == InitQueue /\ [][NextAnalyzer]_vars

C34_TokensWithinBudget ==
  \A sid \in DOMAIN sessions :
    sessions[sid].injectionsTokens <= maxTotalTokensPerSession

\* C40: a completed task whose result is the coordinator's fixed "nothing
\* found" synthesis (confidence 0, no sources) is never returned by
\* getInjection as injected content.
C40_NothingFoundNotInjected ==
  (last.op = "getInjection" /\ last.result = "content")
  => tasks[injections[Len(injections)].taskId].result # 1

\* ------------------------------- properties: conversation analyzer calls

\* C38: in processToolUse, the first tool output of a session that contains
\* an error matching a rule of weight at least minConfidenceToResearch,
\* outside the cooldown, yields shouldResearch = true.
C38_FirstErrorTriggers ==
  [][( /\ last'.op = "processToolUse"
       /\ conversation.errors = {}
       /\ ~( /\ conversation.lastResearchTime # 0
             /\ now - conversation.lastResearchTime < researchCooldownMs )
       /\ last'.input.kind = "error"
       /\ ErrorWeight(last'.input.error) >= minConfidenceToResearch )
     => last'.trigger.shouldResearch]_vars

\* C39: every opportunity returned by processUserPrompt or processToolUse
\* with shouldResearch = true has a confidence of at least 0.6.
C39_ResearchAtLeastMinConfidence ==
  ( /\ last.op \in {"processUserPrompt", "processToolUse"}
    /\ last.trigger.shouldResearch )
  => last.trigger.confidence >= minConfidenceToResearch

\* C36: no research task is injected more than once: there is at most one
\* injection record per task id, and a getInjection call never selects a
\* task whose status is injected.
C36_InjectedAtMostOnce ==
  [][ /\ \A i, j \in DOMAIN injections' :
           ( /\ injections'[i].taskId = injections'[j].taskId
             /\ injections'[i].taskId \in DOMAIN tasks' ) => i = j
      /\ ( /\ last'.op = "getInjection"
           /\ Len(injections') > Len(injections) )
         => tasks[injections'[Len(injections')].taskId].status # "injected"
    ]_vars

\* A call made after the session's only task was injected, within budget
\* and outside the cooldown, finds no candidate.
C36_Witness ==
  /\ last.op = "getInjection"
  /\ last.result = "none"
  /\ last.gate = 4
  /\ Len(tasks) = 1
  /\ tasks[1].status = "injected"
  /\ Cardinality({i \in DOMAIN injections : injections[i].taskId = 1}) = 1

\* ------------------------------------------ a store with many newer tasks

\* The number of tasks created after the session's completed task.
MaxNewerTasks == 20

\* The completed task of session s1, with a five-source result.
OlderTask ==
  [status |-> "completed", sessionId |-> "s1", priority |-> 7,
   createdAt |-> StartMs, completedAt |-> StartMs, result |-> 2,
   sourceRows |-> 5, error |-> "none"]

\* The i-th task created after it, for another session, i milliseconds
\* later; its research has failed.
NewerTask(i) ==
  [status |-> "failed", sessionId |-> "s2", priority |-> 7,
   createdAt |-> StartMs + i, completedAt |-> 0, result |-> 0,
   sourceRows |-> 0, error |-> "timeout"]

\* The store after the session's task has completed and n tasks of another
\* session have been created and have failed since.
InitRecent ==
  /\ \E n \in 0..MaxNewerTasks :
       /\ now = StartMs + n
       /\ tasks = <<OlderTask>> \o [i \in 1..n |-> NewerTask(i)]
       /\ running = [i \in 1..(n + 1) |-> 0]
       /\ retries = [i \in 1..(n + 1) |-> 0]
  /\ sessions = [s \in {} |-> 0]
  /\ injections = <<>>
  /\ lastInjectionTime = [s \in SessionIds |-> None]
  /\ fkEnforced = TRUE
  /\ runs = <<>>
  /\ conversation = NoConversation
  /\ last = NoLast

EnqueueRecent == EnqueueFor({"s2"}, Priorities, MaxNewerTasks + 1)

NextRecent ==
  \/ UpsertSession
  \/ EnqueueRecent
  \/ GetInjection

SpecRecent == InitRecent /\ [][NextRecent]_vars

\* C35: if the session exists, is within budget and outside its cooldown,
\* and has a completed, not yet injected task whose score exceeds the
\* minimum relevance, getInjection returns content, however many tasks were
\* created after that task.
C35_EligibleTaskIsInjected ==
  [][( /\ last'.op = "getInjection"
       /\ last'.sid \in DOMAIN sessions
       /\ canInject(sessions[last'.sid])
       /\ ~isInCooldown(last'.sid)
       /\ \E id \in DOMAIN tasks :
            /\ tasks[id].status = "completed"
            /\ tasks[id].sessionId = last'.sid
            /\ HasResult(tasks[id])
            /\ id \notin InjectedTaskIds(last'.sid)
            /\ scoreCandidate(id, last'.ctx) > MinRelevanceMilli )
     => last'.result = "content"]_vars

\* ---------------------------------------------------------------- cleanup

DayMs == 86400000

\* cleanup's argument daysToKeep (default 30) in the calls of the model.
daysToKeep == 1

MaxCleanupTasks == 1
MaxCleanupTicks == 2

\* A task's id is its position in tasks. Tasks are stored in the order of
\* their creation, so the rows with created_at < cutoff are the first k;
\* the ids of the rows that stay move down by k.
DeletedTasks(cutoff) ==
  Cardinality({id \in DOMAIN tasks : tasks[id].createdAt < cutoff})

\* The injection records after k tasks are deleted: with foreign keys
\* enforced the records of a deleted task go with it (ON DELETE CASCADE);
\* without, they stay and name no row (id 0).
RecordsAfterDelete(k) ==
  LET Stays(rec) == ~fkEnforced \/ rec.taskId = 0 \/ rec.taskId > k
      Moved(rec) == [rec EXCEPT !.taskId = IF @ > k THEN @ - k ELSE 0]
      kept == SelectSeq(injections, Stays)
  IN [i \in DOMAIN kept |-> Moved(kept[i])]

\* cleanup(daysToKeep): DELETE of the tasks created before the cutoff and
\* of the sessions last active before it. A worker that holds a deleted
\* task is dropped with it: its writes would match no row.
Cleanup ==
  LET cutoff == now - daysToKeep * DayMs
      k == DeletedTasks(cutoff)
  IN /\ tasks' = SubSeq(tasks, k + 1, Len(tasks))
     /\ running' = SubSeq(running, k + 1, Len(running))
     /\ retries' = SubSeq(retries, k + 1, Len(retries))
     /\ injections' = RecordsAfterDelete(k)
     /\ sessions' = [sid \in {x \in DOMAIN sessions :
                                ~(sessions[x].lastActivityAt < cutoff)}
                       |-> sessions[sid]]
     /\ last' = [NoLast EXCEPT !.op = "cleanup", !.gate = k]
     /\ UNCHANGED <<now, lastInjectionTime, fkEnforced, runs, conversation>>

TickCleanup == TickBy((daysToKeep + 1) * DayMs, MaxCleanupTicks)

EnqueueCleanup == EnqueueFor(SessionIds, {7}, MaxCleanupTasks)

WorkerCompleteCleanup == WorkerCompleteOf({2})

NextCleanup ==
  \/ TickCleanup
  \/ UpsertSession
  \/ EnqueueCleanup
  \/ WorkerClaim
  \/ WorkerCompleteCleanup
  \/ GetInjection
  \/ GetUnifiedInjection
  \/ Cleanup

SpecCleanup == Init /\ [][NextCleanup]_vars

\* The tokens of the stored records of session sid.
TokensOf(sid) ==
  SumOver([i \in DOMAIN injections |->
             IF injections[i].sessionId = sid
             THEN injections[i].tokensUsed ELSE 0])

\* C37: for every session, after any sequence of upsertSession,
\* getInjection, getUnifiedInjection and cleanup, injectionsCount equals
\* the number of stored injection records of the session and
\* injectionsTokens the sum of their tokensUsed.
C37_CountersMatchRecords ==
  \A sid \in DOMAIN sessions :
    /\ sessions[sid].injectionsCount = Cardinality(RecordsOf(sid))
    /\ sessions[sid].injectionsTokens = TokensOf(sid)


====
